---- MODULE Spec2Model ----
(***************************************************************************)
(* A model of the FAT image engine of Defrag (src/defrag): the image       *)
(* (FAT copies, cluster payloads made of 32-byte slots, the FAT32 boot     *)
(* root field), the write-ahead journal file, and the in-memory session    *)
(* (occupied_clusters, the file graph).  Handlers are compiled into the    *)
(* sequence of journal appends and image writes the code issues, which     *)
(* the model then executes one write at a time, so that every point at     *)
(* which execution can stop is a state.                                    *)
(***************************************************************************)
EXTENDS Integers, Sequences, FiniteSets, TLC

(***************************************************************************)
(* Bounds of the model.                                                    *)
(***************************************************************************)
\* data_clusters_count of the modelled images (FAT entries 0..DCC exist).
DCC == 20
\* swap_clusters calls per session.
MaxSwaps == 2
\* The first MaxSteppedSwaps calls of a session are followed write by write (every
\* point at which execution can stop is a state); later calls are taken whole.
MaxSteppedSwaps == 1
\* bytes_per_cluster // 32: the number of 32-byte slots of one cluster.
SlotsPerCluster == 2

(***************************************************************************)
(* Program constants.                                                      *)
(***************************************************************************)
fat16 == 1
fat32 == 2
tx_write_table == 0
tx_write_cluster == 1
tx_write_both == 2
\* Python's None, for fields that otherwise hold a cluster number.
None == 0 - 1
\* The two bytes b'ee' of a payload of create_file(..., b'e' * n), as a number.
DataWord == 25957
\* 2^16: the split of a first-cluster number into its high and low fields.
Half == 65536

end_of_file_markers(t) == IF t = fat16 THEN 65528 ELSE 268435448
bad_cluster_markers(t) == IF t = fat16 THEN 65527 ELSE 268435447

\* Python's `not x` for x a cluster number or None.
Falsy(x) == x = None \/ x = 0

is_end_of_file(t, entry) == entry >= end_of_file_markers(t)
is_bad_cluster(t, entry) == entry = bad_cluster_markers(t)
is_reserved_cluster(t, entry) ==
    /\ ~(is_end_of_file(t, entry) \/ is_bad_cluster(t, entry))
    /\ entry > DCC - 1

(***************************************************************************)
(* Sequence helpers.                                                       *)
(***************************************************************************)
RECURSIVE Concat(_)
Concat(ss) == IF ss = <<>> THEN <<>> ELSE Head(ss) \o Concat(Tail(ss))

Range(s) == {s[i] : i \in DOMAIN s}

(***************************************************************************)
(* The state.                                                              *)
(***************************************************************************)
VARIABLES
    fs_type,            \* FSType of the image
    number_of_fats,     \* _bs_common.number_of_fats
    fat,                \* fat[k][c]: entry of cluster c in FAT copy k
    data,               \* data[c]: the slots of cluster c
    boot_root,          \* the root_cluster field at byte 44 of a FAT32 boot sector
    journal,            \* the lines of the journal file
    occupied_clusters,  \* cluster number -> OccupiedClusterInfo
    files,              \* file id -> File / Directory object
    pending,            \* writes the running handler has still to issue
    buf,                \* the two payloads read by swap_clusters (lines 263-264)
    raised,             \* the exception the last handler ended with, or "none"
    swaps,              \* the swap_clusters calls of the session, in order
    pre,                \* image before the running / last swap_clusters call
    post,               \* image the running / last swap_clusters call leads to
    base,               \* image before the call preceding the last one
    phase,              \* position of the session: "closed" (no session), the
                        \* step of __init__ to run next, "ready" or "failed"
    unclosed_transactions,  \* Journaler.unclosed_transactions (<<>> for None)
    corrupted_clusters, \* _corrupted_clusters: cluster number -> its errors
    default_table,      \* _default_table
    remove_corrupted,   \* the remove_corrupted argument of __init__
    found_directory,    \* id of found_directory, or "None"
    log,                \* the journal file as the running / last open found it
    fat0,               \* the FAT copies as the running / last open found them
    opens,              \* number of opens of the image so far
    repaired,           \* per finished _correct_errors_: frames replayed, image changed
    calls,              \* operations called on the session since it was opened
    tool,               \* the Defragmentator / Fragmentator built on the session
    history,            \* the calls made on the tools of the image, in order
    raw                 \* the bytes and boot-sector fields a low-level routine is run on

openvars == << phase, unclosed_transactions, corrupted_clusters, default_table,
               remove_corrupted, found_directory, log, fat0, opens, repaired, calls >>

toolvars == << tool, history >>

\* No tool is built on the session.
NoTool == [built |-> FALSE, files |-> {}]

\* No low-level routine is followed on its own.
NoRaw == <<>>

vars == <<fs_type, number_of_fats, fat, data, boot_root, journal,
          occupied_clusters, files, pending, buf, raised, swaps, pre, post, base,
          phase, unclosed_transactions, corrupted_clusters, default_table,
          remove_corrupted, found_directory, log, fat0, opens, repaired, calls,
          tool, history, raw>>

Image == [fat |-> fat, data |-> data, boot_root |-> boot_root]

(***************************************************************************)
(* Journal lines (journaler.py).  One record shape for all lines.          *)
(***************************************************************************)
PathLine(p) == [t |-> "PATH", path |-> p, kind |-> None,
                cluster_number |-> None, value |-> None, table |-> None]
\* Journaler.open_transaction
open_transaction(k) == [t |-> "TRANSACTION", path |-> "", kind |-> k,
                cluster_number |-> None, value |-> None, table |-> None]
\* Journaler.report(JournalEvent(cluster_number, value, table))
report(n, v, k) == [t |-> "EVENT", path |-> "", kind |-> None,
                cluster_number |-> n, value |-> v, table |-> k]
\* Journaler.close_transaction
close_transaction == [t |-> "CLOSED", path |-> "", kind |-> None,
                cluster_number |-> None, value |-> None, table |-> None]

\* Journaler._recover_data_ lines 50-55 for one line: a TRANSACTION line pushes a
\* frame, a CLOSED line pops one, any other line is parsed as an event of the
\* top frame; pop from or index into an empty stack, and a line that is no
\* event, raise and end the replay.
ReplayLine(r, line) ==
    LET stack == r.stack
        n == Len(stack)
    IN  IF r.error THEN r
        ELSE IF line.t = "TRANSACTION"
        THEN [r EXCEPT !.stack = Append(stack, [kind |-> line.kind, events |-> <<>>])]
        ELSE IF line.t = "CLOSED"
        THEN IF n = 0 THEN [r EXCEPT !.error = TRUE]
             ELSE [r EXCEPT !.stack = SubSeq(stack, 1, n - 1)]
        ELSE IF n = 0 \/ line.t # "EVENT" THEN [r EXCEPT !.error = TRUE]
        ELSE [r EXCEPT !.stack[n].events = Append(@, line)]

\* The loop of Journaler._recover_data_ (line 41) over lines lo .. hi, in order.
RECURSIVE ReplayLines(_, _, _, _)
ReplayLines(r, lines, lo, hi) ==
    IF lo > hi THEN r
    ELSE IF lo = hi THEN ReplayLine(r, lines[lo])
    ELSE LET mid == (lo + hi) \div 2
             left == ReplayLines(r, lines, lo, mid)
         IN  IF left.error THEN left ELSE ReplayLines(left, lines, mid + 1, hi)

\* Journaler._recover_data_: the unclosed transactions of a journal file (the
\* empty stack stands for None).
recover_data(lines, image_filename) ==
    IF lines = <<>> THEN [stack |-> <<>>, error |-> FALSE]
    ELSE IF Head(lines) # PathLine(image_filename) THEN [stack |-> <<>>, error |-> FALSE]
    ELSE ReplayLines([stack |-> <<>>, error |-> FALSE], lines, 2, Len(lines))

(***************************************************************************)
(* The writes a handler issues.  op "J" appends a journal line; "FAT"      *)
(* writes one entry of one FAT copy; "HI" / "LO" write the first-cluster   *)
(* high / low field of a directory slot; "BOOT" writes the FAT32 root      *)
(* cluster field; "READ2" reads two clusters into buf; "DATA" writes a     *)
(* buffered payload; "RAISE" ends the handler with an exception.           *)
(* ph names the part of the handler that issues the write.                 *)
(***************************************************************************)
Op(o, c, k, v, line, ph) ==
    [op |-> o, c |-> c, k |-> k, v |-> v, line |-> line, ph |-> ph]
J(line, ph) == Op("J", None, None, None, line, ph)
NoLine == PathLine("")

\* write_fat_entry_for_cluster closing its transaction twice.
write_fat_entry_for_cluster_closed_twice(n, value, k, ph) ==
    << J(open_transaction(tx_write_table), ph),
       J(report(n, value, k), ph),
       Op("FAT", n, k, value, NoLine, ph),
       J(close_transaction, ph),
       J(close_transaction, ph) >>

\* FileSystemProcessor.write_fat_entry_for_cluster (FAT16 / FAT32 entry codec:
\* the value is stored as written).
write_fat_entry_for_cluster(n, value, k, ph) ==
    << J(open_transaction(tx_write_table), ph),
       J(report(n, value, k), ph),
       Op("FAT", n, k, value, NoLine, ph),
       J(close_transaction, ph) >>

\* FileSystemProcessor.write_all_fat_entries_for_cluster
write_all_fat_entries_for_cluster(n, value, nfats, ph) ==
    << J(open_transaction(tx_write_table), ph), J(report(n, value, None), ph) >>
    \o Concat([i \in 1..nfats |-> write_fat_entry_for_cluster(n, value, i - 1, ph)])
    \o << J(close_transaction, ph) >>

\* write_cluster journalling the write only after issuing it.
write_cluster_journal_late(cluster, src, ph) ==
    << Op("DATA", cluster, None, src, NoLine, ph),
       J(open_transaction(tx_write_cluster), ph),
       J(report(cluster, None, None), ph),
       J(close_transaction, ph) >>

\* FileSystemProcessor.write_cluster, the payload being buf[src].
write_cluster(cluster, src, ph) ==
    << J(open_transaction(tx_write_cluster), ph),
       J(report(cluster, None, None), ph),
       Op("DATA", cluster, None, src, NoLine, ph),
       J(close_transaction, ph) >>

\* FileSystemProcessor._change_directory_entries_for_file_.  The NoneFile has
\* parent_cluster_number None: computing its address raises (TypeError) before
\* the journal is touched.
change_directory_entries_for_file(new_address, file, t, ph) ==
    IF file.parent_cluster_number = None
    THEN << Op("RAISE", None, None, None, NoLine, "TypeError") >>
    ELSE << J(open_transaction(tx_write_cluster), ph),
            J(report(file.parent_cluster_number, None, None), ph) >>
         \o (IF file.parent # "None"
             THEN << Op("HI", file.parent_cluster_number, file.parent_offset,
                        new_address \div Half, NoLine, ph),
                     Op("LO", file.parent_cluster_number, file.parent_offset,
                        new_address % Half, NoLine, ph),
                     J(close_transaction, ph) >>
             ELSE IF t = fat32
             THEN << Op("BOOT", None, None, new_address, NoLine, ph),
                     J(close_transaction, ph) >>
             ELSE << Op("RAISE", None, None, None, NoLine, "RuntimeWarning") >>)

Raises(ops) == \E i \in DOMAIN ops : ops[i].op = "RAISE"
RaisedBy(ops) == IF Raises(ops) THEN ops[Len(ops)].ph ELSE "none"

(***************************************************************************)
(* Executing one write against the image, the journal and the buffers.     *)
(***************************************************************************)
Machine == [fat |-> fat, data |-> data, boot_root |-> boot_root,
            journal |-> journal, buf |-> buf]

SlotOf(offset) == offset \div 32 + 1

Exec(m, o) ==
    CASE o.op = "J"     -> [m EXCEPT !.journal = Append(@, o.line)]
      [] o.op = "FAT"   -> [m EXCEPT !.fat[o.k][o.c] = o.v]
      [] o.op = "HI"    -> [m EXCEPT !.data[o.c][SlotOf(o.k)].hi = o.v]
      [] o.op = "LO"    -> [m EXCEPT !.data[o.c][SlotOf(o.k)].lo = o.v]
      [] o.op = "BOOT"  -> [m EXCEPT !.boot_root = o.v]
      [] o.op = "READ2" -> [m EXCEPT !.buf = << m.data[o.c], m.data[o.k] >>]
      [] o.op = "DATA"  -> [m EXCEPT !.data[o.c] = m.buf[o.v]]
      [] OTHER          -> m

\* The writes ops[lo] .. ops[hi] in order, first half before second half (the
\* test on `left` only makes its value be computed before the rest is run).
RECURSIVE RunRange(_, _, _, _)
RunRange(m, ops, lo, hi) ==
    IF lo > hi THEN m
    ELSE IF lo = hi THEN Exec(m, ops[lo])
    ELSE LET mid == (lo + hi) \div 2
             left == RunRange(m, ops, lo, mid)
         IN  IF DOMAIN left = {} THEN left ELSE RunRange(left, ops, mid + 1, hi)

Run(m, ops) == RunRange(m, ops, 1, Len(ops))

ImageOf(m) == [fat |-> m.fat, data |-> m.data, boot_root |-> m.boot_root]

(***************************************************************************)
(* occupied_clusters as a Python dict.                                     *)
(***************************************************************************)
Pop(occ, n) == [k \in DOMAIN occ \ {n} |-> occ[k]]
Put(occ, n, e) == [k \in DOMAIN occ \cup {n} |-> IF k = n THEN e ELSE occ[k]]

OccupiedClusterInfo(number, previous_number, next_number, file) ==
    [number |-> number, previous_number |-> previous_number,
     next_number |-> next_number, file |-> file]

KeyError == << Op("RAISE", None, None, None, NoLine, "KeyError") >>

\* FixPrevious without the care for a predecessor that is the other side.
FixPrevious_no_self_reference(occ, previous, new_number, old_number) ==
    [occ EXCEPT ![previous].next_number = new_number]

\* swap_clusters lines 225-231 / 232-238: the predecessor of the side that has
\* moved to new_number now points at it; when the predecessor is the other side
\* of the swap, the entry found under its key is the moved side itself.
FixPrevious(occ, previous, new_number, old_number) ==
    IF occ[previous].number # new_number
    THEN [occ EXCEPT ![previous].next_number = new_number]
    ELSE [occ EXCEPT ![previous].previous_number = old_number]

\* swap_clusters lines 240-245 / 248-253.
FixNext(occ, next, new_number, old_number) ==
    IF occ[next].number # new_number
    THEN [occ EXCEPT ![next].previous_number = new_number]
    ELSE [occ EXCEPT ![next].next_number = old_number]

\* The result of a handler: the writes it issues, the in-memory state it leaves
\* and the exception it ends with.
Outcome(ops, occ, fls) ==
    [ops |-> ops, occ |-> occ, files |-> fls, raised |-> RaisedBy(ops)]

\* The test with the second entry left out.
one_is_bad_first_only(t, first_entry, second_entry) == is_bad_cluster(t, first_entry)

\* swap_clusters lines 198-202: one of the two entries read from copy 0 is the
\* bad-cluster mark.
one_is_bad(t, first_entry, second_entry) ==
    is_bad_cluster(t, first_entry) \/ is_bad_cluster(t, second_entry)

\* FileSystemProcessor.swap_clusters
swap_clusters(first_number, second_number, occ, fls, fatv, t, nfats) ==
    LET hasF == first_number \in DOMAIN occ
        hasS == second_number \in DOMAIN occ
        fe == occ[first_number]
        se == occ[second_number]
        occ0 == Pop(Pop(occ, first_number), second_number)
        first_entry0 == fatv[0][first_number]
        second_entry0 == fatv[0][second_number]
        \* lines 207-216
        occ1a == IF hasF THEN Put(occ0, second_number, [fe EXCEPT !.number = second_number])
                 ELSE occ0
        occ1 == IF hasS THEN Put(occ1a, first_number, [se EXCEPT !.number = first_number])
                ELSE occ1a
        first_previous == IF hasF THEN fe.previous_number ELSE None
        first_next == IF hasF THEN fe.next_number ELSE None
        second_previous == IF hasS THEN se.previous_number ELSE None
        second_next == IF hasS THEN se.next_number ELSE None
        \* lines 218-223
        headF == Falsy(first_previous) /\ hasF
        opsHF == IF headF
                 THEN change_directory_entries_for_file(second_number, fls[fe.file], t, "head")
                 ELSE <<>>
        files1 == IF headF THEN [fls EXCEPT ![fe.file].first_cluster = second_number] ELSE fls
        headS == Falsy(second_previous) /\ hasS
        opsHS == IF headS
                 THEN change_directory_entries_for_file(first_number, files1[se.file], t, "head")
                 ELSE <<>>
        files2 == IF headS THEN [files1 EXCEPT ![se.file].first_cluster = first_number] ELSE files1
        \* lines 225-238
        prevF == ~Falsy(first_previous) /\ hasF
        opsPF == IF prevF
                 THEN write_all_fat_entries_for_cluster(first_previous, second_number, nfats, "previous")
                      \o (IF first_previous \in DOMAIN occ1 THEN <<>> ELSE KeyError)
                 ELSE <<>>
        occ2 == IF prevF THEN FixPrevious(occ1, first_previous, second_number, first_number)
                ELSE occ1
        prevS == ~Falsy(second_previous) /\ hasS
        opsPS == IF prevS
                 THEN write_all_fat_entries_for_cluster(second_previous, first_number, nfats, "previous")
                      \o (IF second_previous \in DOMAIN occ2 THEN <<>> ELSE KeyError)
                 ELSE <<>>
        occ3 == IF prevS THEN FixPrevious(occ2, second_previous, first_number, second_number)
                ELSE occ2
        \* lines 240-254
        nextF == ~Falsy(first_next) /\ hasF
        opsNF == IF nextF /\ first_next \notin DOMAIN occ3 THEN KeyError ELSE <<>>
        occ4 == IF nextF THEN FixNext(occ3, first_next, second_number, first_number) ELSE occ3
        first_entry == IF nextF THEN occ4[second_number].next_number ELSE first_entry0
        nextS == ~Falsy(second_next) /\ hasS
        opsNS == IF nextS /\ second_next \notin DOMAIN occ4 THEN KeyError ELSE <<>>
        occ5 == IF nextS THEN FixNext(occ4, second_next, first_number, second_number) ELSE occ4
        second_entry == IF nextS THEN occ5[first_number].next_number ELSE second_entry0
        \* lines 256-267
        opsBoth ==
            << J(open_transaction(tx_write_both), "both"),
               J(report(first_number, second_entry, None), "both"),
               J(report(second_number, first_entry, None), "both") >>
            \o write_all_fat_entries_for_cluster(first_number, second_entry, nfats, "both")
            \o write_all_fat_entries_for_cluster(second_number, first_entry, nfats, "both")
            \o << Op("READ2", first_number, second_number, None, NoLine, "both") >>
            \o write_cluster(first_number, 2, "both")
            \o write_cluster(second_number, 1, "both")
            \o << J(close_transaction, "both") >>
    IN  IF first_number = second_number
        THEN Outcome(<< Op("RAISE", None, None, None, NoLine, "ValueError") >>, occ, fls)
        ELSE IF one_is_bad(t, first_entry0, second_entry0)
        THEN Outcome(<< Op("RAISE", None, None, None, NoLine, "ValueError") >>, occ0, fls)
        ELSE IF Raises(opsHF) THEN Outcome(opsHF, occ1, fls)
        ELSE IF Raises(opsHS) THEN Outcome(opsHF \o opsHS, occ1, files1)
        ELSE IF Raises(opsPF) THEN Outcome(opsHF \o opsHS \o opsPF, occ1, files2)
        ELSE IF Raises(opsPS) THEN Outcome(opsHF \o opsHS \o opsPF \o opsPS, occ2, files2)
        ELSE IF Raises(opsNF) THEN Outcome(opsHF \o opsHS \o opsPF \o opsPS \o opsNF, occ3, files2)
        ELSE IF Raises(opsNS)
        THEN Outcome(opsHF \o opsHS \o opsPF \o opsPS \o opsNF \o opsNS, occ4, files2)
        ELSE Outcome(opsHF \o opsHS \o opsPF \o opsPS \o opsBoth, occ5, files2)

(***************************************************************************)
(* The image and the session a swap session starts from: what open leaves  *)
(* for a consistent image holding  \D\f : a directory D of one cluster     *)
(* under the root and a file f of two clusters inside D.  On FAT16 the     *)
(* root is the fixed region (virtual cluster 1, one cluster long); on      *)
(* FAT32 it is the data cluster 2.                                         *)
(***************************************************************************)
ImagePath == "test"
FatCopies(n) == 0 .. n - 1
Clusters == 0 .. DCC
PayloadClusters == 1 .. DCC
Slots == 1 .. SlotsPerCluster

Slot(name, isdir, hi, lo) == [name |-> name, isdir |-> isdir, hi |-> hi, lo |-> lo]
\* 32 zero bytes: a free slot, which ends a directory listing.
ZeroSlot == Slot("NUL", FALSE, 0, 0)
\* DirectoryEntry.create_short_directory_entry
create_short_directory_entry(name, first_cluster, is_directory) ==
    Slot(name, is_directory, first_cluster \div Half, first_cluster % Half)
\* 32 bytes of file content.
DataSlot(token) == Slot(token, FALSE, DataWord, DataWord)

ZeroCluster == [i \in Slots |-> ZeroSlot]
DataCluster(token) == [i \in Slots |-> DataSlot(token)]
DirCluster(entry) == [i \in Slots |-> IF i = 1 THEN entry ELSE ZeroSlot]

RootOf(t) == IF t = fat16 THEN 1 ELSE 2

\* File / Directory objects (service_classes.py).
File(name, first_cluster, parent, parent_offset, parent_cluster_number, is_dir, contents, number_of_entries, cluster_count) ==
    [name |-> name, first_cluster |-> first_cluster, parent |-> parent,
     parent_offset |-> parent_offset, parent_cluster_number |-> parent_cluster_number,
     is_dir |-> is_dir, contents |-> contents, number_of_entries |-> number_of_entries,
     cluster_count |-> cluster_count]
\* File.get_none_file
get_none_file == File("None", None, "None", None, None, FALSE, <<>>, 0, None)

InitFat(t, n) ==
    LET r == RootOf(t)
        eoc == end_of_file_markers(t)
    IN  [k \in FatCopies(n) |->
            [c \in Clusters |->
                IF c < 2 \/ c = r \/ c = r + 1 \/ c = r + 3 THEN eoc
                ELSE IF c = r + 2 THEN r + 3
                ELSE 0]]

InitData(t) ==
    LET r == RootOf(t)
    IN  [c \in PayloadClusters |->
            IF c = r THEN DirCluster(create_short_directory_entry("D", r + 1, TRUE))
            ELSE IF c = r + 1 THEN DirCluster(create_short_directory_entry("F", r + 2, FALSE))
            ELSE IF c = r + 2 THEN DataCluster("f1")
            ELSE IF c = r + 3 THEN DataCluster("f2")
            ELSE ZeroCluster]

InitFiles(t) ==
    LET r == RootOf(t)
    IN  [id \in {"root", "D", "F", "none"} |->
            IF id = "root" THEN File("", r, "None", 0, 0, TRUE, << "D" >>, 1, 1)
            ELSE IF id = "D" THEN File("D", r + 1, "root", 0, r, TRUE, << "F" >>, 1, 1)
            ELSE IF id = "F" THEN File("F", r + 2, "D", 0, r + 1, FALSE, <<>>, 0, 2)
            ELSE get_none_file]

InitOccupied(t) ==
    LET r == RootOf(t)
    IN  [c \in {0, r, r + 1, r + 2, r + 3} |->
            IF c = 0 THEN OccupiedClusterInfo(0, None, None, "none")
            ELSE IF c = r THEN OccupiedClusterInfo(r, None, None, "root")
            ELSE IF c = r + 1 THEN OccupiedClusterInfo(r + 1, None, None, "D")
            ELSE IF c = r + 2 THEN OccupiedClusterInfo(r + 2, None, r + 3, "F")
            ELSE OccupiedClusterInfo(r + 3, r + 2, None, "F")]

(***************************************************************************)
(* Consistency of a session with its image (spec section 3).               *)
(***************************************************************************)
FirstClusterOf(slot) == slot.hi * Half + slot.lo

\* The record at (parent_cluster_number, parent_offset) is the file's short-name
\* record and holds its first cluster.
RecordOk(fls, d, id) ==
    LET f == fls[id]
        slot == d[f.parent_cluster_number][SlotOf(f.parent_offset)]
    IN  slot.name = f.name /\ FirstClusterOf(slot) = f.first_cluster

HasRecord(fls, id) == fls[id].parent # "None"

ParentRecordsOk(fls, d) == \A id \in DOMAIN fls : HasRecord(fls, id) => RecordOk(fls, d, id)

\* occupied_clusters is doubly linked.
OccLinked(occ) ==
    \A k \in DOMAIN occ :
        /\ occ[k].number = k
        /\ occ[k].previous_number # None =>
              /\ occ[k].previous_number \in DOMAIN occ
              /\ occ[occ[k].previous_number].next_number = k
        /\ occ[k].next_number # None =>
              /\ occ[k].next_number \in DOMAIN occ
              /\ occ[occ[k].next_number].previous_number = k

\* Every FAT copy holds the chain occupied_clusters describes.
OccMirrorsFat(occ, fatv, t) ==
    \A c \in DOMAIN occ : \A k \in DOMAIN fatv :
        c >= 2 => IF occ[c].next_number = None THEN is_end_of_file(t, fatv[k][c])
                  ELSE fatv[k][c] = occ[c].next_number

SessionConsistent ==
    /\ OccLinked(occupied_clusters)
    /\ OccMirrorsFat(occupied_clusters, fat, fs_type)
    /\ ParentRecordsOk(files, data)
    /\ fs_type = fat32 => boot_root = files["root"].first_cluster

NoImage == [fat |-> <<>>, data |-> <<>>, boot_root |-> None, ok |-> FALSE]
Snapshot == [fat |-> fat, data |-> data, boot_root |-> boot_root, ok |-> SessionConsistent]

Init ==
    /\ fs_type \in {fat16, fat32}
    /\ number_of_fats = 2
    /\ fat = InitFat(fs_type, number_of_fats)
    /\ data = InitData(fs_type)
    /\ boot_root = IF fs_type = fat32 THEN RootOf(fs_type) ELSE None
    /\ journal = << PathLine(ImagePath) >>
    /\ occupied_clusters = InitOccupied(fs_type)
    /\ files = InitFiles(fs_type)
    /\ pending = <<>>
    /\ buf = << ZeroCluster, ZeroCluster >>
    /\ raised = "none"
    /\ swaps = <<>>
    /\ pre = NoImage
    /\ post = ImageOf(NoImage)
    /\ base = NoImage
    /\ phase = "ready"
    /\ unclosed_transactions = <<>>
    /\ corrupted_clusters = <<>>
    /\ default_table = None
    /\ remove_corrupted = FALSE
    /\ found_directory = "None"
    /\ log = <<>>
    /\ fat0 = <<>>
    /\ opens = 1
    /\ repaired = <<>>
    /\ calls = 0
    /\ tool = NoTool
    /\ history = <<>>
    /\ raw = NoRaw

\* swap_clusters is called: the handler's in-memory effect (unobservable until
\* it returns) is taken at once, its writes are left to be issued one by one.
SwapBegin(a, b) ==
    /\ phase = "ready"
    /\ pending = <<>>
    /\ raised = "none"
    /\ Len(swaps) < MaxSwaps
    /\ Len(swaps) < MaxSteppedSwaps
    /\ LET out == swap_clusters(a, b, occupied_clusters, files, fat, fs_type, number_of_fats)
       IN  /\ pending' = out.ops
           /\ occupied_clusters' = out.occ
           /\ files' = out.files
           /\ post' = ImageOf(Run(Machine, out.ops))
    /\ pre' = Snapshot
    /\ base' = pre
    /\ swaps' = Append(swaps, << a, b >>)
    /\ UNCHANGED toolvars
    /\ UNCHANGED raw
    /\ UNCHANGED << fs_type, number_of_fats, fat, data, boot_root, journal, buf, raised >>
    /\ UNCHANGED openvars

\* The running handler issues its next write (or raises).
Step ==
    /\ pending # <<>>
    /\ LET o == Head(pending)
           m == Exec(Machine, o)
       IN  /\ fat' = m.fat
           /\ data' = m.data
           /\ boot_root' = m.boot_root
           /\ journal' = m.journal
           /\ buf' = m.buf
           /\ raised' = IF o.op = "RAISE" THEN o.ph ELSE raised
    /\ pending' = Tail(pending)
    /\ UNCHANGED toolvars
    /\ UNCHANGED raw
    /\ UNCHANGED << fs_type, number_of_fats, occupied_clusters, files, swaps, pre, post, base >>
    /\ UNCHANGED openvars

\* swap_clusters runs from call to return (or raise).
SwapWhole(a, b) ==
    /\ phase = "ready"
    /\ pending = <<>>
    /\ raised = "none"
    /\ Len(swaps) < MaxSwaps
    /\ Len(swaps) >= MaxSteppedSwaps
    /\ LET out == swap_clusters(a, b, occupied_clusters, files, fat, fs_type, number_of_fats)
           m == Run(Machine, out.ops)
       IN  /\ occupied_clusters' = out.occ
           /\ files' = out.files
           /\ raised' = out.raised
           /\ fat' = m.fat
           /\ data' = m.data
           /\ boot_root' = m.boot_root
           /\ journal' = m.journal
           /\ buf' = m.buf
           /\ post' = ImageOf(m)
    /\ pre' = Snapshot
    /\ base' = pre
    /\ swaps' = Append(swaps, << a, b >>)
    /\ UNCHANGED toolvars
    /\ UNCHANGED raw
    /\ UNCHANGED << fs_type, number_of_fats, pending >>
    /\ UNCHANGED openvars

\* The clusters swap_clusters is called with: those of the root (FAT32), of D and
\* of F, and a free one.
SwapArgs == 2 .. RootOf(fat32) + 4

Next ==
    \/ \E a, b \in SwapArgs : a # b /\ SwapBegin(a, b)
    \/ \E a, b \in SwapArgs : a # b /\ SwapWhole(a, b)
    \/ Step

Spec == Init /\ [][Next]_vars

(***************************************************************************)
(* Reading a file back.                                                    *)
(***************************************************************************)
\* FileSystemProcessor.get_file_cluster_chain: follow next_number from the first
\* cluster until it is None (or 0).  A cluster that is no key of the map raises;
\* a cyclic map keeps the loop running for ever ("hang").
RECURSIVE FollowChain(_, _, _, _)
FollowChain(occ, cluster, chain, fuel) ==
    IF Falsy(cluster) THEN [chain |-> chain, raised |-> "none"]
    ELSE IF cluster \notin DOMAIN occ THEN [chain |-> chain, raised |-> "KeyError"]
    ELSE IF fuel = 0 THEN [chain |-> chain, raised |-> "hang"]
    ELSE FollowChain(occ, occ[cluster].next_number, Append(chain, cluster), fuel - 1)

file_cluster_chain(occ, file) ==
    FollowChain(occ, file.first_cluster, <<>>, Cardinality(DOMAIN occ))

get_file_cluster_chain(occ, file) == file_cluster_chain(occ, file).chain

\* FileSystemProcessor.get_file, before the last chunk is stripped: the payloads
\* of the clusters of the chain, in order.
get_file(occ, fls, d, id) ==
    LET chain == get_file_cluster_chain(occ, fls[id])
    IN  [i \in DOMAIN chain |-> d[chain[i]]]

RegularFiles == {id \in DOMAIN files : ~files[id].is_dir /\ id # "none"}

\* The content the files of the initial image were created with.
ContentAtOpen(id) == IF id = "F" THEN << DataCluster("f1"), DataCluster("f2") >> ELSE <<>>

(***************************************************************************)
(* The claims about swap_clusters.                                         *)
(***************************************************************************)
Idle == pending = <<>>
Returned == pending = <<>> /\ raised = "none" /\ swaps # <<>>
LastSwap == swaps[Len(swaps)]
SwappedTwice ==
    /\ Returned
    /\ Len(swaps) >= 2
    /\ swaps[Len(swaps) - 1] = LastSwap
    /\ base.ok

\* C1: on a consistent image, swap_clusters(a, b) followed by swap_clusters(a, b)
\* restores every FAT entry of every copy and the payloads of both clusters.
C1_SwapTwiceRestores ==
    SwappedTwice =>
        /\ fat = base.fat
        /\ data[LastSwap[1]] = base.data[LastSwap[1]]
        /\ data[LastSwap[2]] = base.data[LastSwap[2]]

\* C2: after any sequence of successful swap_clusters calls every regular file
\* reads back the payloads it held when the session started.
C2_FileContentUnchanged ==
    Returned => \A id \in RegularFiles :
                    get_file(occupied_clusters, files, data, id) = ContentAtOpen(id)

\* C3: after any sequence of successful swap_clusters calls the map of occupied
\* clusters is keyed by number and consistently doubly linked.
C3_OccupiedLinked == Returned => OccLinked(occupied_clusters)

\* A successful swap of a cluster with its direct successor, and one of a cluster
\* with its direct predecessor, have returned (f occupies RootOf + 2 -> RootOf + 3).
C3_Witness ==
    /\ Returned
    /\ Len(swaps) = 2
    /\ swaps[1] = << RootOf(fs_type) + 2, RootOf(fs_type) + 3 >>
    /\ swaps[2] = << RootOf(fs_type) + 2, RootOf(fs_type) + 3 >>

\* C4: after any sequence of successful swap_clusters calls the slot at
\* (parent_cluster_number, parent_offset) is the file's record and holds its
\* first cluster, for every file.
C4_ParentRecord == Returned => ParentRecordsOk(files, data)

\* C5: whenever swap_clusters has left the image neither as it was before the
\* call nor fully swapped, the journal holds an unclosed transaction.
C5_CrashRecoverable ==
    (pending # <<>> /\ Image # ImageOf(pre) /\ Image # post)
        => recover_data(journal, ImagePath).stack # <<>>

(***************************************************************************)
(* Write-ahead ordering.                                                   *)
(***************************************************************************)
IsImageWrite(o) == o.op \in {"FAT", "HI", "LO", "BOOT", "DATA"}
IsClose(o) == o.op = "J" /\ o.line.t = "CLOSED"

\* The frames open in the journal as it stands.
OpenFrames == recover_data(journal, ImagePath).stack

Announces(frame, c) == \E i \in DOMAIN frame.events : frame.events[i].cluster_number = c
AnnouncesEntry(frame, c, v, k) ==
    \E i \in DOMAIN frame.events :
        /\ frame.events[i].cluster_number = c
        /\ frame.events[i].value = v
        /\ frame.events[i].table = k

\* The journal, as it stands, covers the image write o that is about to be issued.
Covered(o, frames) ==
    LET n == Len(frames)
    IN  /\ n > 0
        /\ o.op = "FAT" =>
              /\ frames[n].kind = tx_write_table
              /\ AnnouncesEntry(frames[n], o.c, o.v, o.k)
              /\ n > 1
              /\ frames[n - 1].kind = tx_write_table
              /\ AnnouncesEntry(frames[n - 1], o.c, o.v, None)
        /\ o.op \in {"HI", "LO", "DATA"} =>
              /\ frames[n].kind = tx_write_cluster
              /\ Announces(frames[n], o.c)
        /\ o.op = "BOOT" =>
              /\ frames[n].kind = tx_write_cluster
              /\ frames[n].events # <<>>
        /\ o.ph = "both" =>
              /\ frames[1].kind = tx_write_both
              /\ Announces(frames[1], LastSwap[1])
              /\ Announces(frames[1], LastSwap[2])

\* The writes the frame about to be closed announced have been issued.
Settled(o, frame) ==
    /\ frame.kind = tx_write_table =>
          \A i \in DOMAIN frame.events :
              LET e == frame.events[i]
              IN  \A k \in FatCopies(number_of_fats) :
                      (e.table = None \/ e.table = k) => fat[k][e.cluster_number] = e.value
    /\ frame.kind = tx_write_both => Image = post
    /\ (frame.kind = tx_write_cluster /\ o.ph = "both") =>
          \A i \in DOMAIN frame.events :
              data[frame.events[i].cluster_number] = post.data[frame.events[i].cluster_number]
    /\ (frame.kind = tx_write_cluster /\ o.ph = "head") =>
          \A i \in DOMAIN frame.events :
              \E id \in DOMAIN files :
                  /\ files[id].parent_cluster_number = frame.events[i].cluster_number
                  /\ IF HasRecord(files, id)
                     THEN FirstClusterOf(data[files[id].parent_cluster_number]
                                             [SlotOf(files[id].parent_offset)])
                          = files[id].first_cluster
                     ELSE boot_root = files[id].first_cluster

MaxLog == 5

self_loop == 0
cluster_intersection == 1
bad_cluster == 2
unclosed_transaction == 3

\* FATError; cluster_info is the key of the OccupiedClusterInfo object it refers
\* to and file the file of that object.
FATError(error_type, cluster_number, next_cluster_number) ==
    [type |-> error_type, cluster_number |-> cluster_number,
     next_cluster_number |-> next_cluster_number, cluster_info |-> None, file |-> "None"]

\* error.cluster_info = occupied_clusters[key]
WithClusterInfo(error, occ, key) ==
    [error EXCEPT !.cluster_info = key, !.file = occ[key].file]

\* _corrupted_clusters is a dict: its entries in insertion order, each the errors
\* of one cluster held in a Python list or a Python set (kept in insertion order).
ErrorList(n, errors) == [number |-> n, coll |-> "list", errors |-> errors]
ErrorSet(n, errors) == [number |-> n, coll |-> "set", errors |-> errors]
DictKeys(d) == {d[i].number : i \in DOMAIN d}
DictIndex(d, n) == CHOOSE i \in DOMAIN d : d[i].number = n
DictSet(d, entry) ==
    IF entry.number \in DictKeys(d)
    THEN [d EXCEPT ![DictIndex(d, entry.number)] = entry]
    ELSE Append(d, entry)

\* The log of LogicalTests.test_log.
test_log ==
    << PathLine("test"),
       open_transaction(tx_write_both), report(25, 0, None),
       open_transaction(tx_write_table), report(25, 0, None),
       open_transaction(tx_write_table), report(25, 0, 0),
       close_transaction >>

JournalClusters == {25, 26}

\* The events of all frames, frame by frame.
EventsOf(transactions) == Concat([i \in DOMAIN transactions |-> transactions[i].events])

\* _recover_data_ line 310 for each event in turn.
RECURSIVE RecordEvents(_, _)
RecordEvents(events, corrupted) ==
    IF events = <<>> THEN corrupted
    ELSE LET number == Head(events).cluster_number
         IN  RecordEvents(Tail(events),
                 DictSet(corrupted, ErrorList(number,
                     << FATError(unclosed_transaction, number, number) >>)))

\* _recover_data_ taking the events of the last frame only.
engine_recover_data_last_frame_only(transactions, corrupted) ==
    IF transactions = <<>> THEN corrupted
    ELSE RecordEvents(transactions[Len(transactions)].events, corrupted)

\* FileSystemProcessor._recover_data_: every event of every unclosed frame sets
\* the entry of its cluster to a list of one UNCLOSED_TRANSACTION error.
engine_recover_data(transactions, corrupted) ==
    RecordEvents(EventsOf(transactions), corrupted)

\* Journaler.open_transaction, report and close_transaction of the session that
\* wrote the file.
OpenTransaction(k) ==
    /\ phase = "closed" /\ opens = 0
    /\ Len(journal) <= MaxLog
    /\ journal' = Append(journal, open_transaction(k))
    /\ UNCHANGED toolvars
    /\ UNCHANGED raw
    /\ UNCHANGED << fs_type, number_of_fats, fat, data, boot_root, occupied_clusters,
                    files, pending, buf, raised, swaps, pre, post, base >>
    /\ UNCHANGED openvars

Report(n, v, k) ==
    /\ phase = "closed" /\ opens = 0
    /\ Len(journal) <= MaxLog
    /\ journal' = Append(journal, report(n, v, k))
    /\ UNCHANGED toolvars
    /\ UNCHANGED raw
    /\ UNCHANGED << fs_type, number_of_fats, fat, data, boot_root, occupied_clusters,
                    files, pending, buf, raised, swaps, pre, post, base >>
    /\ UNCHANGED openvars

CloseTransaction ==
    /\ phase = "closed" /\ opens = 0
    /\ Len(journal) <= MaxLog
    /\ journal' = Append(journal, close_transaction)
    /\ UNCHANGED toolvars
    /\ UNCHANGED raw
    /\ UNCHANGED << fs_type, number_of_fats, fat, data, boot_root, occupied_clusters,
                    files, pending, buf, raised, swaps, pre, post, base >>
    /\ UNCHANGED openvars

\* The journal file opened again for appending: its lines stay.
reopen_for_appending(lines) == lines

\* Journaler lines 58-59 and 30: the journal file is opened for writing, which
\* empties it.
reopen(lines) == <<>>

\* Journaler._add_capture_
add_capture(lines, capture) == Append(lines, PathLine(capture))

\* FileSystemProcessor.__init__ lines 31-33: Journaler.__init__ replays the file,
\* truncates it and writes the image path; a replay that raises leaves it as is.
JournalerInit ==
    /\ phase = "closed"
    /\ LET r == recover_data(journal, ImagePath)
       IN  IF r.error
           THEN /\ raised' = "IndexError"
                /\ phase' = "failed"
                /\ UNCHANGED << journal, unclosed_transactions >>
           ELSE /\ unclosed_transactions' = r.stack
                /\ journal' = add_capture(reopen(journal), ImagePath)
                /\ phase' = "recover"
                /\ raised' = "none"
    /\ log' = journal
    /\ opens' = opens + 1
    /\ corrupted_clusters' = <<>>
    /\ fat0' = <<>>
    /\ UNCHANGED toolvars
    /\ UNCHANGED raw
    /\ UNCHANGED << fs_type, number_of_fats, fat, data, boot_root, occupied_clusters,
                    files, pending, buf, swaps, pre, post, base, default_table,
                    remove_corrupted, found_directory, repaired, calls >>

\* FileSystemProcessor.__init__ line 35: _recover_data_.
RecoverData ==
    /\ phase = "recover"
    /\ corrupted_clusters' = engine_recover_data(unclosed_transactions, corrupted_clusters)
    /\ phase' = "tables"
    /\ UNCHANGED toolvars
    /\ UNCHANGED raw
    /\ UNCHANGED << fs_type, number_of_fats, fat, data, boot_root, journal,
                    occupied_clusters, files, pending, buf, raised, swaps, pre, post,
                    base, unclosed_transactions, default_table, remove_corrupted,
                    found_directory, log, fat0, opens, repaired, calls >>

InitJournal ==
    /\ fs_type = fat16
    /\ number_of_fats = 2
    /\ fat = InitFat(fs_type, number_of_fats)
    /\ data = InitData(fs_type)
    /\ boot_root = None
    /\ journal \in {<<>>, << PathLine(ImagePath) >>, << PathLine("other") >>, test_log}
    /\ occupied_clusters = << >>
    /\ files = << >>
    /\ pending = <<>>
    /\ buf = << ZeroCluster, ZeroCluster >>
    /\ raised = "none"
    /\ swaps = <<>>
    /\ pre = NoImage
    /\ post = ImageOf(NoImage)
    /\ base = NoImage
    /\ phase = "closed"
    /\ unclosed_transactions = <<>>
    /\ corrupted_clusters = <<>>
    /\ default_table = None
    /\ remove_corrupted = FALSE
    /\ found_directory = "None"
    /\ log = <<>>
    /\ fat0 = <<>>
    /\ opens = 0
    /\ repaired = <<>>
    /\ calls = 0
    /\ tool = NoTool
    /\ history = <<>>
    /\ raw = NoRaw

NextJournal ==
    \/ \E k \in {tx_write_table, tx_write_cluster, tx_write_both} : OpenTransaction(k)
    \/ \E n \in JournalClusters : Report(n, None, None)
    \/ CloseTransaction
    \/ JournalerInit
    \/ RecoverData

SpecJournal == InitJournal /\ [][NextJournal]_vars

(***************************************************************************)
(* What replay has to report, read off the log itself.                     *)
(***************************************************************************)
\* Frames open after line i: TRANSACTION lines minus CLOSED lines among 1..i.
Depth(lines, i) ==
    Cardinality({j \in 1..i : lines[j].t = "TRANSACTION"})
    - Cardinality({j \in 1..i : lines[j].t = "CLOSED"})

\* The frame opened at line i is still open after line j.
OpenAt(lines, i, j) ==
    /\ i <= j /\ lines[i].t = "TRANSACTION"
    /\ \A m \in i..j : Depth(lines, m) >= Depth(lines, i)

\* The event at line j was recorded directly in the frame opened at line i.
DirectlyIn(lines, i, j) ==
    /\ lines[j].t = "EVENT" /\ OpenAt(lines, i, j)
    /\ \A m \in i+1..j : ~OpenAt(lines, m, j)

\* The elements of a set of line numbers, ascending.
RECURSIVE Ascending(_)
Ascending(S) ==
    IF S = {} THEN <<>>
    ELSE LET m == CHOOSE x \in S : \A y \in S : x <= y
         IN  << m >> \o Ascending(S \ {m})

\* The frames without a matching CLOSED at the end of the log, each with its
\* kind and the events recorded directly in it.
UnclosedFrames(lines) ==
    LET n == Len(lines)
        open == Ascending({i \in 1..n : OpenAt(lines, i, n)})
    IN  [f \in DOMAIN open |->
            [kind |-> lines[open[f]].kind,
             events |-> LET js == Ascending({j \in 1..n : DirectlyIn(lines, open[f], j)})
                        IN  [e \in DOMAIN js |-> lines[js[e]]]]]

\* The log is one a journalling session can leave behind: no CLOSED and no event
\* outside a frame.
WellFormed(lines) ==
    \A j \in 1..Len(lines) :
        /\ Depth(lines, j) >= 0
        /\ lines[j].t = "EVENT" => Depth(lines, j) >= 1

ReplayedOwnLog ==
    /\ phase = "tables"
    /\ log # <<>> /\ Head(log) = PathLine(ImagePath)

\* C7: when the log's first line is the image path, replay reports exactly the
\* frames that have no matching CLOSED at the end of the log (closed frames,
\* also those nested in an open one, are dropped), each with its kind and the
\* events recorded directly in it; _recover_data_ then holds one
\* UNCLOSED_TRANSACTION error for every cluster number an event of a reported
\* frame carries, and for no other cluster.  For the log of the test the result
\* is two frames of kinds 2 and 0 whose events all name cluster 25.
C7_ReplayReportsUnclosed ==
    ReplayedOwnLog =>
        /\ WellFormed(Tail(log))
        /\ unclosed_transactions = UnclosedFrames(Tail(log))
        /\ DictKeys(corrupted_clusters) =
              {e.cluster_number : e \in Range(EventsOf(UnclosedFrames(Tail(log))))}
        /\ Cardinality(DictKeys(corrupted_clusters)) = Len(corrupted_clusters)
        /\ \A i \in DOMAIN corrupted_clusters :
              /\ Len(corrupted_clusters[i].errors) = 1
              /\ corrupted_clusters[i].errors[1].type = unclosed_transaction
              /\ corrupted_clusters[i].errors[1].cluster_number = corrupted_clusters[i].number
        /\ log = test_log =>
              /\ Len(unclosed_transactions) = 2
              /\ unclosed_transactions[1].kind = tx_write_both
              /\ unclosed_transactions[2].kind = tx_write_table
              /\ \A e \in Range(EventsOf(unclosed_transactions)) : e.cluster_number = 25

\* Replay has reported a frame with an event of its own that holds a closed frame
\* with an event for another cluster.
C7_Witness ==
    /\ ReplayedOwnLog
    /\ Len(unclosed_transactions) = 1
    /\ Len(unclosed_transactions[1].events) = 1
    /\ Cardinality({j \in DOMAIN log : log[j].t = "EVENT"}) = 2
    /\ Cardinality({log[j].cluster_number : j \in {i \in DOMAIN log : log[i].t = "EVENT"}}) = 2
    /\ \E j \in DOMAIN log : log[j].t = "CLOSED"
    /\ DictKeys(corrupted_clusters) = {unclosed_transactions[1].events[1].cluster_number}

(***************************************************************************)
(* Opening an image: FileSystemProcessor.__init__ from line 37 on.  A      *)
(* session in the making is a record st of the image and journal           *)
(* (fat, data, boot_root, journal, buf), the in-memory state (occ, files,  *)
(* corrupted, found), the exception that has ended it (raised) and the     *)
(* image's type and number of FAT copies (t, n).                           *)
(***************************************************************************)
\* _compare_tables_: for every cluster of range(data_clusters_count) on which a
\* copy differs from copy 0, the (table, entry) pairs of copy 0 and of the
\* copies that differ.
compare_tables(fatv, nfats) ==
    LET differing(i) == {j \in 1 .. nfats - 1 : fatv[j][i] # fatv[0][i]}
    IN  [i \in {c \in 0 .. DCC - 1 : differing(c) # {}} |->
            {<< 0, fatv[0][i] >>} \cup {<< j, fatv[j][i] >> : j \in differing(i)}]

\* _fix_tables_ lines 357-359, for the clusters still to fix: the entry of the
\* chosen table among the recorded pairs is broadcast; none recorded raises.
RECURSIVE fix_tables(_, _, _, _)
fix_tables(clusters, different_entries, table, nfats) ==
    IF clusters = <<>> THEN <<>>
    ELSE LET cluster == Head(clusters)
             correct == {x \in different_entries[cluster] : x[1] = table}
         IN  IF correct = {}
             THEN << Op("RAISE", None, None, None, NoLine, "IndexError") >>
             ELSE write_all_fat_entries_for_cluster(cluster,
                      (CHOOSE x \in correct : TRUE)[2], nfats, "fix")
                  \o fix_tables(Tail(clusters), different_entries, table, nfats)

\* _fix_tables_ lines 353-355: the user is asked when there are differences and
\* no valid table was given.
AsksUser(different_entries, table, nfats) ==
    /\ table = None \/ table < 0 \/ table >= nfats
    /\ DOMAIN different_entries # {}

NoError == FATError(None, None, None)

\* _get_cluster_chain_ (first_cluster >= 0) from `cluster` on.  Reading the
\* entry of a cluster beyond data_clusters_count raises; a cycle that never
\* meets an occupied cluster keeps the loop running for ever ("hang").
RECURSIVE ChainFrom(_, _, _, _, _, _)
ChainFrom(chain, cluster, occ, table, t, fuel) ==
    IF cluster \notin Clusters
    THEN [chain |-> chain, error |-> NoError, raised |-> "RuntimeWarning"]
    ELSE IF fuel = 0
    THEN [chain |-> chain, error |-> NoError, raised |-> "hang"]
    ELSE LET next_cluster_number == table[cluster]
         IN  IF is_end_of_file(t, next_cluster_number)
             THEN [chain |-> chain, error |-> NoError, raised |-> "none"]
             ELSE IF cluster = next_cluster_number
             THEN [chain |-> chain, raised |-> "none",
                   error |-> FATError(self_loop, cluster, next_cluster_number)]
             ELSE IF next_cluster_number \in DOMAIN occ
             THEN [chain |-> chain, raised |-> "none",
                   error |-> FATError(cluster_intersection, cluster, next_cluster_number)]
             ELSE IF \/ is_bad_cluster(t, next_cluster_number)
                     \/ is_reserved_cluster(t, next_cluster_number)
             THEN [chain |-> chain, raised |-> "none",
                   error |-> FATError(bad_cluster, cluster, next_cluster_number)]
             ELSE ChainFrom(Append(chain, next_cluster_number), next_cluster_number,
                            occ, table, t, fuel - 1)

\* _get_cluster_chain_ with no cluster taken to be occupied.
get_cluster_chain_occupied_unseen(first_cluster, occ, table, t) ==
    ChainFrom(<< first_cluster >>, first_cluster, <<>>, table, t, DCC + 2)

get_cluster_chain(first_cluster, occ, table, t) ==
    ChainFrom(<< first_cluster >>, first_cluster, occ, table, t, DCC + 2)

\* _add_error_: a cluster that already has errors gets one more by .add, which a
\* list (left by _recover_data_) does not have.
add_error(st, error, cluster_info) ==
    IF error.cluster_number \in DictKeys(st.corrupted)
    THEN LET i == DictIndex(st.corrupted, error.cluster_number)
         IN  IF st.corrupted[i].coll = "list"
             THEN [st EXCEPT !.raised = "AttributeError"]
             ELSE [st EXCEPT !.corrupted[i].errors =
                       Append(@, WithClusterInfo(error, st.occ, cluster_info))]
    ELSE [st EXCEPT !.corrupted =
              Append(@, ErrorSet(error.cluster_number,
                                 << WithClusterInfo(error, st.occ, cluster_info) >>))]

\* _set_occupied_clusters_ lines 553-556 with the second error left out.
add_second_error_never(st2, error, previous) == st2

\* _set_occupied_clusters_ lines 553-556: an intersection is reported for the
\* file that holds the cluster run into as well.
add_second_error(st2, error, previous) ==
    IF error.type = cluster_intersection /\ st2.raised = "none"
    THEN LET second_cluster == st2.occ[error.next_cluster_number]
         IN  add_error(st2, FATError(cluster_intersection, second_cluster.number, previous),
                       second_cluster.number)
    ELSE st2

\* _set_occupied_clusters_
set_occupied_clusters(st, id) ==
    LET Enter(r) ==
            LET chain == r.chain
                last == Len(chain)
                previous == chain[last]
                Info(k) == LET i == CHOOSE j \in DOMAIN chain : chain[j] = k
                           IN  OccupiedClusterInfo(k, IF i = 1 THEN None ELSE chain[i - 1],
                                                   IF i = last THEN None ELSE chain[i + 1], id)
                st1 == [st EXCEPT !.files[id].cluster_count = last,
                                  !.occ = [k \in DOMAIN st.occ \cup Range(chain) |->
                                              IF k \in Range(chain) THEN Info(k) ELSE st.occ[k]]]
            IN  IF r.raised # "none" THEN [st EXCEPT !.raised = r.raised]
                ELSE IF r.error = NoError THEN st1
                ELSE add_second_error(add_error(st1, r.error, previous), r.error, previous)
    IN  Enter(get_cluster_chain(st.files[id].first_cluster, st.occ, st.fat[0], st.t))

\* DirectoryEntry.empty_directory_entry: a record whose first byte is 0xE5.
empty_directory_entry == Slot("E5", FALSE, 0, 0)

\* _read_directory_: the records of the directory's clusters up to the first one
\* that starts with a zero byte, the 0xE5 ones skipped, each with its place.
read_directory(st, id) ==
    LET chain == get_file_cluster_chain(st.occ, st.files[id])
        places == Concat([c \in DOMAIN chain |->
                            [i \in Slots |-> [cl |-> chain[c], i |-> i - 1]]])
        SlotAt(p) == st.data[places[p].cl][places[p].i + 1]
        zeros == {p \in DOMAIN places : SlotAt(p).name = "NUL"}
        stop == IF zeros = {} THEN Len(places) + 1
                ELSE CHOOSE p \in zeros : \A q \in zeros : p <= q
        live == Ascending({p \in 1 .. stop - 1 : SlotAt(p).name # "E5"})
    IN  [e \in DOMAIN live |->
            [slot |-> SlotAt(live[e]), parent_offset |-> places[live[e]].i * 32,
             parent_cluster_number |-> places[live[e]].cl]]

\* _process_directory_entries_: a File / Directory object per record, its
\* clusters entered into occupied_clusters.  An object is known by its name.
RECURSIVE process_directory_entries(_, _, _)
process_directory_entries(st, directory, entries) ==
    IF entries = <<>> \/ st.raised # "none" THEN st
    ELSE LET entry == Head(entries)
             id == entry.slot.name
             file == File(id, FirstClusterOf(entry.slot), directory, entry.parent_offset,
                          entry.parent_cluster_number, entry.slot.isdir, <<>>, 0, None)
             st1 == set_occupied_clusters([st EXCEPT !.files = Put(st.files, id, file)], id)
         IN  process_directory_entries(
                 [st1 EXCEPT !.files[directory].contents = Append(@, id)],
                 directory, Tail(entries))

\* _file_system_traversal_(parent), and its loop over parent.contents.  A
\* directory that is its own ancestor exhausts the recursion.
RECURSIVE traverse(_, _, _)
RECURSIVE traverse_contents(_, _, _)
traverse(st, parent, depth) ==
    IF st.raised # "none" THEN st
    ELSE IF depth = 0 THEN [st EXCEPT !.raised = "RecursionError"]
    ELSE LET Descend(st1) ==
                 IF st1.raised # "none" THEN st1
                 ELSE traverse_contents(st1, st1.files[parent].contents, depth)
             Process(entries) ==
                 Descend(process_directory_entries(
                             [st EXCEPT !.files[parent].number_of_entries = @ + Len(entries)],
                             parent, entries))
         IN  Process(read_directory(st, parent))

traverse_contents(st, ids, depth) ==
    IF ids = <<>> \/ st.raised # "none" THEN st
    ELSE traverse_contents(
             IF st.files[Head(ids)].is_dir THEN traverse(st, Head(ids), depth - 1) ELSE st,
             Tail(ids), depth)

\* _determine_fat_type_: _root_cluster.  The fixed root region of a FAT16 image
\* is one cluster long, which makes it cluster 1.
root_cluster(st) == IF st.t = fat32 THEN st.boot_root ELSE RootOf(fat16)

\* _file_system_traversal_()
file_system_traversal(st) ==
    LET root == File("", root_cluster(st), "None", 0, 0, TRUE, <<>>, 0, None)
        Walk(st1) ==
            LET st2 == IF 0 \in DOMAIN st1.occ THEN st1
                       ELSE [st1 EXCEPT
                                !.occ = Put(@, 0, OccupiedClusterInfo(0, None, None, "none")),
                                !.files = Put(@, "none", get_none_file)]
            IN  IF st1.raised # "none" THEN st1 ELSE traverse(st2, "root", DCC + 1)
    IN  Walk(set_occupied_clusters(
                 [st EXCEPT !.occ = <<>>, !.files = [id \in {"root"} |-> root]], "root"))

\* The session as a record.
Session ==
    [fat |-> fat, data |-> data, boot_root |-> boot_root, journal |-> journal,
     buf |-> buf, occ |-> occupied_clusters, files |-> files,
     corrupted |-> corrupted_clusters, found |-> found_directory, raised |-> raised,
     t |-> fs_type, n |-> number_of_fats, ret |-> << None, None >>]

(***************************************************************************)
(* Writing through a session record.  `ret` holds what the last helper     *)
(* has returned.                                                           *)
(***************************************************************************)
Raise(st, exception) == [st EXCEPT !.raised = exception]

\* The writes of `ops` against the session.
Do(st, ops) ==
    IF st.raised # "none" THEN st
    ELSE IF Raises(ops) THEN Raise(Run(st, ops), RaisedBy(ops))
    ELSE Run(st, ops)

Log(st, line) == [st EXCEPT !.journal = Append(@, line)]

BytesPerCluster == SlotsPerCluster * 32

\* _image_file_handle.write of directory records at the address of `cluster`
\* plus k records: past the end of the cluster the write runs on into the
\* clusters that follow it on the image.
RECURSIVE WriteRecords(_, _, _, _)
WriteRecords(d, cluster, k, records) ==
    IF records = <<>> THEN d
    ELSE LET cl == cluster + k \div SlotsPerCluster
             i == (k % SlotsPerCluster) + 1
         IN  WriteRecords(IF cl \in DOMAIN d THEN [d EXCEPT ![cl][i] = Head(records)] ELSE d,
                          cluster, k + 1, Tail(records))

\* write_cluster for a payload given as records: short payloads are padded with
\* zero bytes, long ones raise.
write_cluster_bytes(st, cluster, payload) ==
    IF st.raised # "none" THEN st
    ELSE IF Len(payload) > SlotsPerCluster THEN Raise(st, "ValueError")
    ELSE LET padded == [i \in Slots |-> IF i <= Len(payload) THEN payload[i] ELSE ZeroSlot]
             st1 == Log(Log(st, open_transaction(tx_write_cluster)),
                        report(cluster, None, None))
         IN  Log([st1 EXCEPT !.data = [c \in DOMAIN @ |-> IF c = cluster THEN padded ELSE @[c]]],
                 close_transaction)

write_all(st, n, value) ==
    Do(st, write_all_fat_entries_for_cluster(n, value, st.n, "all"))

\* list.index: the first place of x in seq (0 when there is none).
IndexOf(seq, x) ==
    IF x \in Range(seq) THEN CHOOSE i \in DOMAIN seq : seq[i] = x /\ \A j \in 1 .. i - 1 : seq[j] # x
    ELSE 0

\* list.remove
Remove(seq, x) ==
    LET i == IndexOf(seq, x)
    IN  SubSeq(seq, 1, i - 1) \o SubSeq(seq, i + 1, Len(seq))

\* File.get_entries_positions
get_entries_positions(st, id) ==
    LET file == st.files[id]
        contents == st.files[file.parent].contents
        file_index == IndexOf(contents, id)
        start == IF file_index = 1 THEN 0
                 ELSE st.files[contents[file_index - 1]].parent_offset
    IN  [start |-> start + 32, end |-> file.parent_offset + 32]

\* The (start, end) ranges _read_entries_from_directory_ and
\* _remove_entries_from_directory_ work on.
EntryRanges(st, id) ==
    LET Ranges(p) == IF p.end > p.start THEN << << p.start, p.end >> >>
                     ELSE << << p.start, BytesPerCluster >>, << 0, p.end >> >>
    IN  Ranges(get_entries_positions(st, id))

\* _read_entries_from_directory_cluster_
read_entries_from_directory_cluster(st, cluster_number, start, end) ==
    LET ks == Ascending({k \in start \div 32 .. end \div 32 - 1 :
                            st.data[cluster_number][k + 1].name # "E5"})
    IN  [e \in DOMAIN ks |-> st.data[cluster_number][ks[e] + 1]]

\* _read_entries_from_directory_
read_entries_from_directory(st, id) ==
    LET Read(ranges) ==
            Concat([r \in DOMAIN ranges |->
                       read_entries_from_directory_cluster(
                           st, st.files[id].parent_cluster_number, ranges[r][1], ranges[r][2])])
    IN  Read(EntryRanges(st, id))

\* _remove_entries_from_directory_cluster_
remove_entries_from_directory_cluster(st, cluster_number, start, end) ==
    LET st1 == Log(Log(st, open_transaction(tx_write_cluster)),
                   report(cluster_number, None, None))
        empty == [i \in 1 .. (end - start) \div 32 |-> empty_directory_entry]
    IN  Log([st1 EXCEPT !.data = WriteRecords(@, cluster_number, start \div 32, empty)],
            close_transaction)

RECURSIVE RemoveRanges(_, _, _)
RemoveRanges(st, cluster_number, ranges) ==
    IF ranges = <<>> THEN st
    ELSE RemoveRanges(
             remove_entries_from_directory_cluster(st, cluster_number,
                                                   Head(ranges)[1], Head(ranges)[2]),
             cluster_number, Tail(ranges))

\* _remove_entries_from_directory_; a file that is not among its parent's
\* contents has no position (list.index raises).
remove_entries_from_directory(st, id) ==
    IF st.raised # "none" THEN st
    ELSE IF IndexOf(st.files[st.files[id].parent].contents, id) = 0 THEN Raise(st, "ValueError")
    ELSE RemoveRanges(st, st.files[id].parent_cluster_number, EntryRanges(st, id))

(***************************************************************************)
(* Creating files and directories.                                         *)
(***************************************************************************)
\* _get_empty_cluster_: the first cluster of range(2, data_clusters_count) whose
\* entry in copy 0 is zero, or -1.
get_empty_cluster(st) ==
    LET free == {i \in 2 .. DCC - 1 : st.fat[0][i] = 0}
    IN  IF free = {} THEN 0 - 1 ELSE CHOOSE i \in free : \A j \in free : i <= j

\* _add_cluster_
add_cluster(st, id) ==
    LET new_cluster == get_empty_cluster(st)
        Link(st1) ==
            LET r == file_cluster_chain(st1.occ, st1.files[id])
                last_cluster == r.chain[Len(r.chain)]
                st2 == [st1 EXCEPT
                           !.occ = Put([@ EXCEPT ![last_cluster].next_number = new_cluster],
                                       new_cluster,
                                       OccupiedClusterInfo(new_cluster, last_cluster, None, id)),
                           !.files[id].cluster_count = @ + 1]
            IN  IF r.raised # "none" THEN Raise(st1, r.raised)
                ELSE IF r.chain = <<>> THEN Raise(st1, "UnboundLocalError")
                ELSE write_all(write_all(st2, last_cluster, new_cluster),
                               new_cluster, end_of_file_markers(st.t))
    IN  IF st.raised # "none" THEN st
        ELSE IF new_cluster = 0 - 1 THEN Raise(st, "RuntimeWarning")
        ELSE Link(write_cluster_bytes(st, new_cluster, <<>>))

\* _add_entry_to_directory: the record is written at the address of the
\* directory's cluster of index number_of_entries // (records per cluster) plus
\* number_of_entries * 32; ret is (parent_cluster_number, parent_offset).
add_entry_to_directory(st, entry, directory) ==
    LET offset == st.files[directory].number_of_entries
        parent_cluster_index == offset \div SlotsPerCluster
        parent_offset == offset % SlotsPerCluster
        Write(st1) ==
            LET r == file_cluster_chain(st1.occ, st1.files[directory])
                parent_cluster_number ==
                    r.chain[IF parent_cluster_index + 1 <= Len(r.chain)
                            THEN parent_cluster_index + 1 ELSE Len(r.chain)]
                st2 == Log(Log(st1, open_transaction(tx_write_cluster)),
                           report(parent_cluster_number, None, None))
                st3 == [st2 EXCEPT
                           !.data = WriteRecords(@, parent_cluster_number, offset, << entry >>)]
            IN  IF st1.raised # "none" THEN st1
                ELSE IF r.raised # "none" THEN Raise(st1, r.raised)
                ELSE IF r.chain = <<>> THEN Raise(st1, "UnboundLocalError")
                ELSE [Log(st3, close_transaction) EXCEPT
                         !.files[directory].number_of_entries = @ + 1,
                         !.ret = << parent_cluster_number, parent_offset * 32 >>]
    IN  IF st.raised # "none" THEN st
        ELSE IF parent_cluster_index > st.files[directory].cluster_count - 1
        THEN Write(add_cluster(st, directory))
        ELSE Write(st)

\* _prepare_clusters_ lines 831-846: the clusters of the new file are taken one
\* by one and chained; `clusters` are those taken so far.
RECURSIVE TakeClusters(_, _, _)
TakeClusters(st, clusters, count) ==
    IF st.raised # "none" \/ Len(clusters) = count THEN [st EXCEPT !.ret = clusters]
    ELSE LET cl == get_empty_cluster(st)
             Release[i \in 0 .. Len(clusters)] ==
                 IF i = 0 THEN st ELSE write_all(Release[i - 1], clusters[i], 0)
             st1 == write_all(st, cl, end_of_file_markers(st.t))
             st2 == IF clusters = <<>> THEN st1
                    ELSE write_all(st1, clusters[Len(clusters)], cl)
         IN  IF cl = 0 - 1 THEN Raise(Release[Len(clusters)], "RuntimeWarning")
             ELSE TakeClusters(st2, Append(clusters, cl), count)

\* _prepare_clusters_ line 851: write_cluster for every cluster of the file.
RECURSIVE WriteContents(_, _, _, _)
WriteContents(st, clusters, contents, i) ==
    IF i > Len(clusters) THEN st
    ELSE WriteContents(
             write_cluster_bytes(st, clusters[i],
                 SubSeq(contents, (i - 1) * SlotsPerCluster + 1,
                        IF i * SlotsPerCluster <= Len(contents)
                        THEN i * SlotsPerCluster ELSE Len(contents))),
             clusters, contents, i + 1)

\* create_short_directory_entry lines 209-212: a name of more than 11 bytes in
\* code page 866 (one byte for each character) is refused.
NameTooLong(name) == Len(name) > 11

\* _prepare_clusters_; contents are the 32-byte pieces of the payload.  ret is
\* (parent_cluster_number, parent_offset, clusters).
prepare_clusters(st, name, parent, is_directory, contents) ==
    LET cluster_count == Len(contents) \div SlotsPerCluster + 1
        Return(st3, clusters) ==
            IF st3.raised # "none" THEN st3
            ELSE [st3 EXCEPT !.ret = << st3.ret[1], st3.ret[2], clusters >>]
        Fill(st1) ==
            LET clusters == st1.ret
                st2 == write_all(st1, clusters[Len(clusters)], end_of_file_markers(st.t))
                entry == create_short_directory_entry(name, clusters[1], is_directory)
            IN  IF st1.raised # "none" THEN st1
                ELSE IF NameTooLong(name) THEN Raise(st2, "ValueError")
                ELSE Return(add_entry_to_directory(WriteContents(st2, clusters, contents, 1),
                                                   entry, parent),
                            clusters)
    IN  IF st.raised # "none" THEN st
        ELSE IF \E i \in DOMAIN st.files[parent].contents :
                    st.files[st.files[parent].contents[i]].name = name
        THEN Raise(st, "ValueError")
        ELSE Fill(TakeClusters(st, <<>>, cluster_count))

\* create_directory (is_directory) and create_file: the new object is known by
\* its name.
create(st, name, parent, is_directory, contents) ==
    LET Register(st1) ==
            LET clusters == st1.ret[3]
                file == File(name, clusters[1], parent, st1.ret[2], st1.ret[1], is_directory,
                             <<>>, 0, Len(clusters))
                st2 == [st1 EXCEPT !.files = Put(@, name, file)]
                st3 == [st2 EXCEPT !.files[parent].contents = Append(@, name)]
            IN  IF st1.raised # "none" THEN st1 ELSE set_occupied_clusters(st3, name)
    IN  Register(prepare_clusters(st, name, parent, is_directory, contents))

create_directory(st, name, parent) == create(st, name, parent, TRUE, <<>>)
create_file(st, name, parent, contents) == create(st, name, parent, FALSE, contents)

\* _create_found_directory_: 'FOUND', and after a ValueError 'FOUND' with a tail.
RECURSIVE create_found_directory(_, _)
create_found_directory(st, names) ==
    LET Named(st1) ==
            IF st1.raised = "ValueError" /\ Len(names) > 1
            THEN create_found_directory(st, Tail(names))
            ELSE [st1 EXCEPT !.found = IF st1.raised = "none" THEN Head(names) ELSE @]
    IN  Named(create_directory(st, Head(names), "root"))

FoundNames == << "FOUND", "FOUND1" >>

(***************************************************************************)
(* Correcting the errors found.                                            *)
(***************************************************************************)
\* `for cluster in chain: write_all_fat_entries_for_cluster(cluster, 0);
\*  occupied_clusters.pop(cluster)`
RECURSIVE ReleaseClusters(_, _)
ReleaseClusters(st, chain) ==
    IF chain = <<>> \/ st.raised # "none" THEN st
    ELSE ReleaseClusters([write_all(st, Head(chain), 0) EXCEPT !.occ = Pop(@, Head(chain))],
                         Tail(chain))

\* file.parent.contents.remove(file)
RemoveFromParent(st, id) ==
    LET parent == st.files[id].parent
    IN  IF st.raised # "none" THEN st
        ELSE IF IndexOf(st.files[parent].contents, id) = 0 THEN Raise(st, "ValueError")
        ELSE [st EXCEPT !.files[parent].contents = Remove(@, id)]

\* _remove_file_
remove_file(st, error) ==
    LET id == error.file
        Release(st1) ==
            LET r == file_cluster_chain(st1.occ, st1.files[id])
            IN  IF st1.raised # "none" THEN st1
                ELSE IF r.raised # "none" THEN Raise(st1, r.raised)
                ELSE RemoveFromParent(ReleaseClusters(st1, r.chain), id)
    IN  IF id = "root" \/ id = "none" THEN st
        ELSE Release(remove_entries_from_directory(st, id))

RECURSIVE AddEntries(_, _, _)
AddEntries(st, entries, directory) ==
    IF entries = <<>> \/ st.raised # "none" THEN st
    ELSE AddEntries(add_entry_to_directory(st, Head(entries), directory),
                    Tail(entries), directory)

\* _move_file_entries_to_found_
move_file_entries_to_found(st, id) ==
    LET Moved(st1, entries) ==
            IF st1.raised # "none" THEN st1
            ELSE IF entries = <<>> THEN Raise(st1, "UnboundLocalError")
            ELSE [st1 EXCEPT !.files[id].parent = st.found,
                             !.files[id].parent_cluster_number = st1.ret[1],
                             !.files[id].parent_offset = st1.ret[2],
                             !.files[st.found].contents = Append(@, id)]
        Move(entries) ==
            Moved(AddEntries(remove_entries_from_directory(st, id), entries, st.found), entries)
    IN  IF IndexOf(st.files[st.files[id].parent].contents, id) = 0 THEN Raise(st, "ValueError")
        ELSE Move(read_entries_from_directory(st, id))

\* _move_file_to_found_
move_file_to_found(st, error) ==
    LET id == error.file
        unclosed == error.type = unclosed_transaction
        st1 == IF unclosed THEN [st EXCEPT !.occ[error.cluster_info].next_number = None]
               ELSE st
        r == file_cluster_chain(st1.occ, st1.files[id])
        at == IndexOf(r.chain, error.cluster_number)
        after == IF at = 0 THEN <<>> ELSE SubSeq(r.chain, at + 1, Len(r.chain))
        Freed[i \in 0 .. Len(after)] ==
            IF i = 0 THEN st1
            ELSE write_all([Freed[i - 1] EXCEPT !.occ = Pop(@, after[i])], after[i], 0)
        Keep(st2) ==
            IF Falsy(error.next_cluster_number)
            THEN RemoveFromParent(remove_entries_from_directory(st2, id), id)
            ELSE write_all(IF st2.files[id].parent # st2.found
                           THEN move_file_entries_to_found(st2, id) ELSE st2,
                           error.cluster_number, end_of_file_markers(st.t))
    IN  IF id = "root" \/ id = st.found \/ id = "none" THEN st
        ELSE IF unclosed /\ r.raised # "none" THEN Raise(st1, r.raised)
        ELSE IF unclosed THEN Keep(Freed[Len(after)])
        ELSE Keep(st1)

\* _correct_errors_ lines 605-612, error by error.
RECURSIVE CorrectEach(_, _, _)
CorrectEach(st, errors, remove) ==
    IF errors = <<>> \/ st.raised # "none" THEN st
    ELSE LET error == Head(errors)
             unclosed == error.type = unclosed_transaction
             linked == IF unclosed THEN WithClusterInfo(error, st.occ, error.cluster_number)
                       ELSE error
         IN  IF unclosed /\ error.cluster_number \notin DOMAIN st.occ
             THEN CorrectEach(st, Tail(errors), remove)
             ELSE CorrectEach(IF remove THEN remove_file(st, linked)
                              ELSE move_file_to_found(st, linked),
                              Tail(errors), remove)

\* _correct_errors_
correct_errors(st, remove) ==
    LET st0 == [st EXCEPT !.found = "None"]
        Clear(st2) == IF st2.raised # "none" THEN st2 ELSE [st2 EXCEPT !.corrupted = <<>>]
        Correct(st1) ==
            Clear(CorrectEach(st1, Concat([i \in DOMAIN st1.corrupted |->
                                              st1.corrupted[i].errors]),
                              remove))
    IN  IF st.corrupted = <<>> THEN st0
        ELSE IF remove THEN Correct(st0)
        ELSE Correct(create_found_directory(st0, FoundNames))

\* _determine_free_space_: the clusters of range(2, data_clusters_count) that no
\* file occupies and whose entry is neither zero nor the bad-cluster mark are
\* freed in every copy.
determine_free_space(st) ==
    LET lost == Ascending({i \in 2 .. DCC - 1 :
                              /\ ~is_bad_cluster(st.t, st.fat[0][i])
                              /\ i \notin DOMAIN st.occ
                              /\ st.fat[0][i] # 0})
    IN  Do(st, Concat([i \in DOMAIN lost |->
                          write_all_fat_entries_for_cluster(lost[i], 0, st.n, "free")]))

(***************************************************************************)
(* Sessions: an image with its journal is opened (__init__ step by step),  *)
(* operated on, left, and opened again.                                    *)
(***************************************************************************)
MaxOpens == 2
MaxCalls == 1

\* What a step of __init__ or an operation leaves, and where it goes on.
Commit(st, next) ==
    /\ fat' = st.fat
    /\ data' = st.data
    /\ boot_root' = st.boot_root
    /\ journal' = st.journal
    /\ buf' = st.buf
    /\ occupied_clusters' = st.occ
    /\ files' = st.files
    /\ corrupted_clusters' = st.corrupted
    /\ found_directory' = st.found
    /\ raised' = st.raised
    /\ phase' = IF st.raised = "none" THEN next ELSE "failed"

\* __init__ lines 39-40: _compare_tables_ and _fix_tables_; `answer` is what the
\* user types when asked for the table.
CompareAndFixTables(answer) ==
    /\ phase = "tables"
    /\ LET different_entries == compare_tables(fat, number_of_fats)
           asks == AsksUser(different_entries, default_table, number_of_fats)
           table == IF asks THEN answer ELSE default_table
       IN  /\ ~asks => answer = 0
           /\ default_table' = table
           /\ Commit(Do(Session, fix_tables(Ascending(DOMAIN different_entries),
                                            different_entries, table, number_of_fats)),
                     "traversal")
    /\ fat0' = fat
    /\ UNCHANGED toolvars
    /\ UNCHANGED raw
    /\ UNCHANGED << fs_type, number_of_fats, pending, swaps, pre, post, base,
                    unclosed_transactions, remove_corrupted, log, opens, repaired, calls >>

\* __init__ line 42: _file_system_traversal_.
Traverse ==
    /\ phase = "traversal"
    /\ Commit(file_system_traversal(Session), "errors")
    /\ UNCHANGED toolvars
    /\ UNCHANGED raw
    /\ UNCHANGED << fs_type, number_of_fats, pending, swaps, pre, post, base,
                    unclosed_transactions, default_table, remove_corrupted, log, fat0,
                    opens, repaired, calls >>

\* __init__ line 43: _correct_errors_.
CorrectErrors ==
    /\ phase = "errors"
    /\ LET Corrected(st) ==
               /\ Commit(st, "free")
               /\ repaired' = Append(repaired, [unclosed |-> unclosed_transactions # <<>>,
                                                changed |-> ImageOf(st) # Image])
       IN  Corrected(correct_errors(Session, remove_corrupted))
    /\ UNCHANGED toolvars
    /\ UNCHANGED raw
    /\ UNCHANGED << fs_type, number_of_fats, pending, swaps, pre, post, base,
                    unclosed_transactions, default_table, remove_corrupted, log, fat0,
                    opens, calls >>

\* __init__ line 44: _determine_free_space_.
DetermineFreeSpace ==
    /\ phase = "free"
    /\ Commit(determine_free_space(Session), "ready")
    /\ UNCHANGED toolvars
    /\ UNCHANGED raw
    /\ UNCHANGED << fs_type, number_of_fats, pending, swaps, pre, post, base,
                    unclosed_transactions, default_table, remove_corrupted, log, fat0,
                    opens, repaired, calls >>

\* An operation of an open session has run to its return or its exception.
Called(st) ==
    /\ fat' = st.fat
    /\ data' = st.data
    /\ boot_root' = st.boot_root
    /\ journal' = st.journal
    /\ buf' = st.buf
    /\ occupied_clusters' = st.occ
    /\ files' = st.files
    /\ corrupted_clusters' = st.corrupted
    /\ raised' = st.raised
    /\ calls' = calls + 1
    /\ UNCHANGED << fs_type, number_of_fats, pending, swaps, pre, post, base, phase,
                    unclosed_transactions, default_table, remove_corrupted,
                    found_directory, log, fat0, opens, repaired >>

CanCall == phase = "ready" /\ raised = "none" /\ calls < MaxCalls

\* swap_clusters(a, b) on an opened session.
SessionSwap(a, b) ==
    /\ CanCall
    /\ LET Swapped(out) ==
               Called([Do(Session, out.ops) EXCEPT !.occ = out.occ, !.files = out.files])
       IN  Swapped(swap_clusters(a, b, occupied_clusters, files, fat, fs_type, number_of_fats))
    /\ UNCHANGED toolvars
    /\ UNCHANGED raw

\* create_file(name, parent, contents)
CreateFile(name, parent, contents) ==
    /\ CanCall
    /\ parent \in DOMAIN files /\ files[parent].is_dir
    /\ Called(create_file(Session, name, parent, contents))
    /\ UNCHANGED toolvars
    /\ UNCHANGED raw

\* create_directory(name, parent)
CreateDirectory(name, parent) ==
    /\ CanCall
    /\ parent \in DOMAIN files /\ files[parent].is_dir
    /\ Called(create_directory(Session, name, parent))
    /\ UNCHANGED toolvars
    /\ UNCHANGED raw

\* The process ends right after __init__ and leaves the image and the journal.
Terminate ==
    /\ phase = "ready" /\ calls = 0
    /\ opens < MaxOpens
    /\ phase' = "closed"
    /\ occupied_clusters' = <<>>
    /\ files' = <<>>
    /\ found_directory' = "None"
    /\ UNCHANGED toolvars
    /\ UNCHANGED raw
    /\ UNCHANGED << fs_type, number_of_fats, fat, data, boot_root, journal, pending, buf,
                    raised, swaps, pre, post, base, unclosed_transactions,
                    corrupted_clusters, default_table, remove_corrupted, log, fat0,
                    opens, repaired, calls >>

(***************************************************************************)
(* The images a session is opened on: the image of \D\F, with or without a *)
(* one-cluster file G in the last cluster the engine addresses, one FAT    *)
(* entry of one copy possibly damaged, and the journal possibly left with  *)
(* an unclosed frame.                                                      *)
(***************************************************************************)
FatCounts == {2, 3}

OpenFat(t, n, withG) ==
    [k \in FatCopies(n) |->
        [c \in Clusters |-> IF withG /\ c = DCC THEN end_of_file_markers(t)
                            ELSE InitFat(t, n)[k][c]]]

OpenData(t, withG) ==
    [c \in PayloadClusters |->
        IF withG /\ c = DCC THEN DataCluster("g1")
        ELSE IF withG /\ c = RootOf(t)
        THEN [i \in Slots |-> IF i = 2 THEN create_short_directory_entry("G", DCC, FALSE)
                              ELSE InitData(t)[c][i]]
        ELSE InitData(t)[c]]

\* The clusters of D, of F, a free one and the last one.
DamageClusters(t) == {RootOf(t) + 1, RootOf(t) + 2, RootOf(t) + 3, RootOf(t) + 4, DCC}
DamageValues(t, c) == {0, c, RootOf(t) + 2, end_of_file_markers(t)}

LeftLogs(t) ==
    {<< PathLine(ImagePath) >>}
    \cup {<< PathLine(ImagePath), open_transaction(tx_write_cluster), report(c, None, None) >> :
            c \in DamageClusters(t)}

InitOpen ==
    /\ fs_type \in {fat16, fat32}
    /\ number_of_fats \in FatCounts
    /\ \E withG \in BOOLEAN :
          /\ data = OpenData(fs_type, withG)
          /\ \/ /\ fat = OpenFat(fs_type, number_of_fats, withG)
                /\ default_table = None
             \/ /\ \E k \in FatCopies(number_of_fats), c \in DamageClusters(fs_type) :
                      \E v \in DamageValues(fs_type, c) :
                          /\ v # OpenFat(fs_type, number_of_fats, withG)[k][c]
                          /\ fat = [OpenFat(fs_type, number_of_fats, withG) EXCEPT ![k][c] = v]
                /\ default_table \in {None} \cup FatCopies(number_of_fats)
    /\ boot_root = IF fs_type = fat32 THEN RootOf(fs_type) ELSE None
    /\ journal \in LeftLogs(fs_type)
    /\ remove_corrupted \in BOOLEAN
    /\ occupied_clusters = <<>>
    /\ files = <<>>
    /\ pending = <<>>
    /\ buf = << ZeroCluster, ZeroCluster >>
    /\ raised = "none"
    /\ swaps = <<>>
    /\ pre = NoImage
    /\ post = ImageOf(NoImage)
    /\ base = NoImage
    /\ phase = "closed"
    /\ unclosed_transactions = <<>>
    /\ corrupted_clusters = <<>>
    /\ found_directory = "None"
    /\ log = <<>>
    /\ fat0 = <<>>
    /\ opens = 0
    /\ repaired = <<>>
    /\ calls = 0
    /\ tool = NoTool
    /\ history = <<>>
    /\ raw = NoRaw

\* The clusters of F and a free one.
SessionSwapArgs(t) == {RootOf(t) + 2, RootOf(t) + 3, RootOf(t) + 4}
NewNames == {"H"}
NewContents == {<<>>, << DataSlot("h1") >>}

NextOpen ==
    \/ JournalerInit
    \/ RecoverData
    \/ \E answer \in FatCopies(number_of_fats) : CompareAndFixTables(answer)
    \/ Traverse
    \/ CorrectErrors
    \/ DetermineFreeSpace
    \/ \E a, b \in SessionSwapArgs(fs_type) : SessionSwap(a, b)
    \/ \E name \in NewNames, parent \in {"root", "D"}, contents \in NewContents :
          CreateFile(name, parent, contents)
    \/ \E name \in NewNames, parent \in {"root", "D"} : CreateDirectory(name, parent)
    \/ Terminate

SpecOpen == InitOpen /\ [][NextOpen]_vars

(***************************************************************************)
(* Opening twice, and the FAT copies.                                      *)
(***************************************************************************)
\* The first open of the image replayed unclosed frames and finished.
FirstOpenReplayed == repaired # <<>> /\ repaired[1].unclosed

C9_FatCopiesAgree ==
    (phase = "ready" /\ raised = "none") =>
        \A c \in DOMAIN occupied_clusters :
            \A j \in FatCopies(number_of_fats) : fat[j][c] = fat[0][c]

\* _compare_tables_ and _fix_tables_ have just run, to their end or to an
\* exception, with a copy index in [0, N) given or chosen.
Reconciled ==
    /\ fat0 # <<>>
    /\ phase = "traversal" \/ (phase = "failed" /\ raised = "IndexError")
    /\ default_table \in FatCopies(number_of_fats)

\* C10: for every cluster whose entry differed between copy 0 and some other
\* copy, reconcile completes without error and afterwards every copy holds the
\* value the chosen copy held before reconcile, also when the chosen copy agreed
\* with copy 0 and only another copy differed.
C10_ReconcileBroadcasts ==
    Reconciled =>
        \A c \in Clusters :
            (\E j \in FatCopies(number_of_fats) : fat0[j][c] # fat0[0][c]) =>
                /\ raised = "none"
                /\ \A j \in FatCopies(number_of_fats) : fat[j][c] = fat0[default_table][c]

(***************************************************************************)
(* Repairs: the images the error creator leaves (a file entered in one FAT *)
(* copy only; a self loop, a bad-cluster mark or a pointer into another    *)
(* file written to every copy), with the journal possibly left with an     *)
(* unclosed frame.                                                         *)
(***************************************************************************)
\* The clusters of F, and of G when the image has it.
FileClusters(t, withG) ==
    {RootOf(t) + 2, RootOf(t) + 3} \cup (IF withG THEN {DCC} ELSE {})

\* ErrorCreator.create_file_in_only_one_table: the entries of the file's chain
\* are zeroed in every copy but fat_number.
create_file_in_only_one_table(f, chain, fat_number) ==
    [k \in DOMAIN f |->
        [c \in DOMAIN f[k] |-> IF k # fat_number /\ c \in chain THEN 0 ELSE f[k][c]]]

\* write_all_fat_entries_for_cluster(c, v) of the error creator, as it shows in
\* the FAT copies.
InjectAll(f, c, v) == [k \in DOMAIN f |-> [f[k] EXCEPT ![c] = v]]

\* The values the error creator writes: the cluster itself (self loop), the
\* bad-cluster mark, a cluster of another file.
InjectValues(t, c) ==
    {c, bad_cluster_markers(t), RootOf(t) + 1, RootOf(t) + 2, RootOf(t) + 3, DCC}

RepairLogs(t, withG) ==
    {<< PathLine(ImagePath) >>}
    \cup {<< PathLine(ImagePath), open_transaction(tx_write_cluster), report(c, None, None) >> :
            c \in FileClusters(t, withG)}

InitRepair ==
    /\ fs_type \in {fat16, fat32}
    /\ number_of_fats \in FatCounts
    /\ \E withG \in BOOLEAN :
          /\ data = OpenData(fs_type, withG)
          /\ journal \in RepairLogs(fs_type, withG)
          /\ \/ /\ fat = OpenFat(fs_type, number_of_fats, withG)
                /\ default_table = None
             \/ /\ \E j \in FatCopies(number_of_fats) :
                      fat = create_file_in_only_one_table(
                                OpenFat(fs_type, number_of_fats, withG),
                                {RootOf(fs_type) + 2, RootOf(fs_type) + 3}, j)
                /\ default_table \in {None} \cup FatCopies(number_of_fats)
             \/ /\ \E c \in FileClusters(fs_type, withG) :
                      \E v \in InjectValues(fs_type, c) :
                          /\ v # OpenFat(fs_type, number_of_fats, withG)[0][c]
                          /\ fat = InjectAll(OpenFat(fs_type, number_of_fats, withG), c, v)
                /\ default_table = None
    /\ boot_root = IF fs_type = fat32 THEN RootOf(fs_type) ELSE None
    /\ remove_corrupted \in BOOLEAN
    /\ occupied_clusters = <<>>
    /\ files = <<>>
    /\ pending = <<>>
    /\ buf = << ZeroCluster, ZeroCluster >>
    /\ raised = "none"
    /\ swaps = <<>>
    /\ pre = NoImage
    /\ post = ImageOf(NoImage)
    /\ base = NoImage
    /\ phase = "closed"
    /\ unclosed_transactions = <<>>
    /\ corrupted_clusters = <<>>
    /\ found_directory = "None"
    /\ log = <<>>
    /\ fat0 = <<>>
    /\ opens = 0
    /\ repaired = <<>>
    /\ calls = 0
    /\ tool = NoTool
    /\ history = <<>>
    /\ raw = NoRaw

SpecRepair == InitRepair /\ [][NextOpen]_vars

\* The first open of the image has ended, with the session ready or with an
\* exception.
Opened == opens = 1 /\ calls = 0 /\ phase \in {"ready", "failed"}

\* At open the chain of F was entered in copy j only and zero in the others.
OnlyInCopy(j) ==
    /\ fat0 # <<>>
    /\ \A k \in FatCopies(number_of_fats) :
          /\ fat0[k][RootOf(fs_type) + 2] = IF k = j THEN RootOf(fs_type) + 3 ELSE 0
          /\ fat0[k][RootOf(fs_type) + 3] = IF k = j THEN end_of_file_markers(fs_type) ELSE 0

\* C11: a file whose chain is entered in FAT copy j only and is zero in every
\* other copy stays in its parent's contents with its chain intact when the
\* image is opened with default table j, and is absent from its parent's
\* contents when the image is opened with another default table.
C11_SingleTable ==
    \A j \in FatCopies(number_of_fats) :
        (Opened /\ OnlyInCopy(j) /\ unclosed_transactions = <<>>) =>
            /\ phase = "ready"
            /\ default_table = j =>
                   /\ "F" \in Range(files["D"].contents)
                   /\ get_file_cluster_chain(occupied_clusters, files["F"])
                          = << RootOf(fs_type) + 2, RootOf(fs_type) + 3 >>
                   /\ \A k \in FatCopies(number_of_fats) :
                          /\ fat[k][RootOf(fs_type) + 2] = RootOf(fs_type) + 3
                          /\ is_end_of_file(fs_type, fat[k][RootOf(fs_type) + 3])
            /\ default_table # j => "F" \notin Range(files["D"].contents)

\* The files the error creator damages, with their first cluster and the
\* directory they are created in.
Damaged == {[id |-> "F", first |-> RootOf(fs_type) + 2, parent |-> "D"],
            [id |-> "G", first |-> DCC, parent |-> "root"]}

\* The walk of the chain from `first` over copy 0 as it was at open, no cluster
\* being occupied yet.
WalkAtOpen(first) == get_cluster_chain(first, <<>>, fat0[0], fs_type)

\* That walk stops with a self loop or at a bad-cluster mark or a reserved
\* number (no cluster of another file).
StopsAtOpen(first) ==
    LET error == WalkAtOpen(first).error
    IN  \/ error.type = self_loop
        \/ /\ error.type = bad_cluster
           /\ \/ is_bad_cluster(fs_type, error.next_cluster_number)
              \/ error.next_cluster_number \notin Clusters
              \/ fat0[0][error.next_cluster_number] = 0

\* At open the FAT copies agreed and the journal had no unclosed frame.
CleanlyLeft ==
    /\ fat0 # <<>>
    /\ \A k \in FatCopies(number_of_fats) : fat0[k] = fat0[0]
    /\ unclosed_transactions = <<>>

\* The record of file id lies at the place the file object names, inside a
\* cluster of directory dir.
RecordIn(id, dir) ==
    /\ files[id].parent = dir
    /\ files[id].parent_cluster_number
           \in Range(get_file_cluster_chain(occupied_clusters, files[dir]))
    /\ files[id].parent_offset \div 32 + 1 \in Slots
    /\ data[files[id].parent_cluster_number][files[id].parent_offset \div 32 + 1].name = id

\* C12: in quarantine mode a file whose chain walk stops at cluster c with a
\* self loop or a bad-cluster mark is, after open, in the contents of the FOUND
\* directory and not in those of its former parent, its parent and record
\* place are those of its record inside FOUND, and the entry of c is an
\* end-of-chain mark in every FAT copy.
C12_Quarantined ==
    \A f \in Damaged :
        (/\ Opened /\ CleanlyLeft /\ ~remove_corrupted
         /\ fat0[0][f.first] # 0
         /\ StopsAtOpen(f.first)) =>
            /\ phase = "ready"
            /\ found_directory \in DOMAIN files
            /\ f.id \in Range(files[found_directory].contents)
            /\ f.id \notin Range(files[f.parent].contents)
            /\ RecordIn(f.id, found_directory)
            /\ \A k \in FatCopies(number_of_fats) :
                   is_end_of_file(fs_type, fat[k][WalkAtOpen(f.first).error.cluster_number])

\* The file the image was made with a cluster for ("None" for a free cluster).
OwnerAtOpen(k) ==
    IF k = RootOf(fs_type) + 1 THEN "D"
    ELSE IF k \in {RootOf(fs_type) + 2, RootOf(fs_type) + 3} THEN "F"
    ELSE IF k = DCC /\ fat0[0][DCC] # 0 THEN "G"
    ELSE "None"

\* At open the chain of file a ran into a cluster of file b.
Collide(a, b) ==
    /\ a.id # b
    /\ fat0[0][a.first] # 0
    /\ \E k \in Range(WalkAtOpen(a.first).chain)
                  \cup {WalkAtOpen(a.first).error.next_cluster_number} : OwnerAtOpen(k) = b

\* The files that have an error of the given type among the recorded ones.
FilesWith(corrupted, type) ==
    LET recorded == UNION {Range(corrupted[i].errors) : i \in DOMAIN corrupted}
    IN  {x.file : x \in {y \in recorded : y.type = type}}

UnclosedAt ==
    {EventsOf(unclosed_transactions)[i].cluster_number :
        i \in DOMAIN EventsOf(unclosed_transactions)}

\* At open the FAT copies agreed, the chain of F was whole and no other chain
\* ran into it.
WholeAtOpen ==
    /\ fat0 # <<>>
    /\ \A k \in FatCopies(number_of_fats) : fat0[k] = fat0[0]
    /\ WalkAtOpen(RootOf(fs_type) + 2)
           = [chain |-> << RootOf(fs_type) + 2, RootOf(fs_type) + 3 >>,
              error |-> NoError, raised |-> "none"]
    /\ fat0[0][DCC] = 0 \/ is_end_of_file(fs_type, fat0[0][DCC])

\* C14: in quarantine mode, after the repair of an unclosed transaction at an
\* occupied cluster c of file F the chain of F ends at c (no next cluster in
\* occupied_clusters, the end-of-chain mark in every FAT copy) and every
\* cluster that followed c in the chain is free: zero in every FAT copy and
\* not in occupied_clusters.
C14_Truncated ==
    \A c \in UnclosedAt \cap {RootOf(fs_type) + 2, RootOf(fs_type) + 3} :
        (Opened /\ WholeAtOpen /\ ~remove_corrupted) =>
            /\ phase = "ready"
            /\ c \in DOMAIN occupied_clusters
            /\ occupied_clusters[c].next_number = None
            /\ \A k \in FatCopies(number_of_fats) : is_end_of_file(fs_type, fat[k][c])
            /\ \A d \in c + 1 .. RootOf(fs_type) + 3 :
                   /\ d \notin DOMAIN occupied_clusters
                   /\ \A k \in FatCopies(number_of_fats) : fat[k][d] = 0

\* At open the FAT copies agreed and file f owned a corrupted cluster: its
\* chain walk stopped with an error, its chain and that of another file ran
\* into each other, or an unclosed frame reports one of its clusters.
CorruptedAtOpen(f) ==
    /\ fat0 # <<>>
    /\ \A k \in FatCopies(number_of_fats) : fat0[k] = fat0[0]
    /\ fat0[0][f.first] # 0
    /\ \/ WalkAtOpen(f.first).error # NoError
       \/ \E b \in {"D", "F", "G"} : Collide(f, b)
       \/ \E g \in Damaged : Collide(g, f.id)
       \/ UnclosedAt \cap Range(WalkAtOpen(f.first).chain) # {}

\* The place of the directory record of file f in the image at open.
RecordAtOpen(f) ==
    IF f.id = "F" THEN << RootOf(fs_type) + 1, 1 >> ELSE << RootOf(fs_type), 2 >>

\* C15: in remove mode, for every corrupted cluster whose owning file f is not
\* the root, after open f is absent from its parent's contents, every cluster
\* of the chain of f has entry 0 in every FAT copy and is absent from
\* occupied_clusters, the directory record of f is a deleted one (first byte
\* 0xE5), and no FOUND directory is created.
C15_Removed ==
    \A f \in Damaged :
        (Opened /\ remove_corrupted /\ CorruptedAtOpen(f)) =>
            /\ phase = "ready"
            /\ f.id \notin Range(files[f.parent].contents)
            /\ \A c \in Range(WalkAtOpen(f.first).chain) :
                   /\ c \notin DOMAIN occupied_clusters
                   /\ \A k \in FatCopies(number_of_fats) : fat[k][c] = 0
            /\ data[RecordAtOpen(f)[1]][RecordAtOpen(f)[2]].name = "E5"
            /\ found_directory \notin DOMAIN files
            /\ "FOUND" \notin DOMAIN files

\* At open the FAT copies agreed and no chain ran in a cycle of several
\* clusters: the only defects of the image are chain errors (self loop,
\* intersection, bad cluster) and unclosed journal frames.
OnlyStructural ==
    /\ fat0 # <<>>
    /\ \A k \in FatCopies(number_of_fats) : fat0[k] = fat0[0]
    /\ \A f \in Damaged : WalkAtOpen(f.first).raised = "none"

\* C16: for an image whose only defects are self loops, cluster intersections,
\* bad clusters and journal-reported unclosed transactions, open completes
\* without raising in remove mode and in quarantine mode, for every
\* combination of them: a cluster that carries both an unclosed transaction
\* and a chain error, a file that owns more than one corrupted cluster.
C16_NeverSurface == (Opened /\ OnlyStructural) => (phase = "ready" /\ raised = "none")

\* The files of the tree: what the contents lists reach from the root.
InTree ==
    LET Reach[n \in 0 .. 3] ==
            IF n = 0 THEN {"root"}
            ELSE Reach[n - 1] \cup UNION {Range(files[d].contents) : d \in Reach[n - 1]}
    IN  Reach[3]

\* The clusters that FAT copy 0 reaches from the first cluster of file id.
ReachedInFat(id) ==
    LET Further(S) == S \cup ({fat[0][c] : c \in S} \cap PayloadClusters)
        Follow[n \in 0 .. DCC] ==
            IF n = 0 THEN {files[id].first_cluster} ELSE Further(Follow[n - 1])
    IN  Follow[DCC]

\* C17: after open and repair, in either mode, of an image whose FAT copies
\* agreed and whose journal had no unclosed frame, no cluster is reached over FAT
\* copy 0 from the first clusters of two different files of the tree, and
\* occupied_clusters attributes every cluster to the file whose chain holds
\* it, a file whose first cluster lies inside or at the end of another file's
\* chain included.
C17_OneOwner ==
    (Opened /\ phase = "ready" /\ CleanlyLeft) =>
        /\ \A a \in InTree : \A b \in InTree \ {a} : ReachedInFat(a) \cap ReachedInFat(b) = {}
        /\ \A c \in DOMAIN occupied_clusters \ {0} :
               c \in ReachedInFat(occupied_clusters[c].file)

(***************************************************************************)
(* Creating files.  The images: \D\F with F of `fill` clusters, so that    *)
(* few or no clusters are left free, with or without G as the second       *)
(* record of the root; the journal holds the path line only.               *)
(***************************************************************************)
\* The lengths of F that leave G's cluster alone.
FillCounts(t) == 2 .. DCC - 2 - RootOf(t)

FilledFat(t, n, withG, fill) ==
    LET last == RootOf(t) + 1 + fill
    IN  [k \in FatCopies(n) |->
            [c \in Clusters |->
                IF RootOf(t) + 2 <= c /\ c < last THEN c + 1
                ELSE IF c = last THEN end_of_file_markers(t)
                ELSE OpenFat(t, n, withG)[k][c]]]

FilledData(t, withG, fill) ==
    [c \in PayloadClusters |->
        IF RootOf(t) + 3 < c /\ c <= RootOf(t) + 1 + fill THEN DataCluster("f2")
        ELSE OpenData(t, withG)[c]]

\* 32 bytes of file content that begin with zero bytes and go on with data.
ZeroLedSlot == Slot("NUL", FALSE, DataWord, DataWord)

\* The files create_file is called for: each name with its contents, of no
\* cluster, of half a cluster, of one and of one and a half, and of half a
\* cluster that begins with zero bytes.
CreateInputs ==
    {[name |-> "H0", contents |-> <<>>],
     [name |-> "H1", contents |-> << DataSlot("h1") >>],
     [name |-> "H2", contents |-> << DataSlot("h1"), DataSlot("h2") >>],
     [name |-> "H3", contents |-> << DataSlot("h1"), DataSlot("h2"), DataSlot("h3") >>],
     [name |-> "HZ", contents |-> << ZeroLedSlot >>]}

\* The calls with a name that is taken in the parent, or is too long.
LongName == "HHHHHHHHHHHH"
RefusedCalls ==
    {[name |-> "D", parent |-> "root", contents |-> << DataSlot("h1") >>],
     [name |-> "F", parent |-> "D", contents |-> << DataSlot("h1") >>],
     [name |-> LongName, parent |-> "root", contents |-> << DataSlot("h1") >>],
     [name |-> LongName, parent |-> "D", contents |-> << DataSlot("h1") >>]}

InitCreate ==
    /\ fs_type \in {fat16, fat32}
    /\ number_of_fats \in FatCounts
    /\ \E withG \in BOOLEAN, fill \in FillCounts(fs_type) :
          /\ data = FilledData(fs_type, withG, fill)
          /\ fat = FilledFat(fs_type, number_of_fats, withG, fill)
    /\ journal = << PathLine(ImagePath) >>
    /\ default_table = None
    /\ boot_root = IF fs_type = fat32 THEN RootOf(fs_type) ELSE None
    /\ remove_corrupted \in BOOLEAN
    /\ occupied_clusters = <<>>
    /\ files = <<>>
    /\ pending = <<>>
    /\ buf = << ZeroCluster, ZeroCluster >>
    /\ raised = "none"
    /\ swaps = <<>>
    /\ pre = NoImage
    /\ post = ImageOf(NoImage)
    /\ base = NoImage
    /\ phase = "closed"
    /\ unclosed_transactions = <<>>
    /\ corrupted_clusters = <<>>
    /\ found_directory = "None"
    /\ log = <<>>
    /\ fat0 = <<>>
    /\ opens = 0
    /\ repaired = <<>>
    /\ calls = 0
    /\ tool = NoTool
    /\ history = <<>>
    /\ raw = NoRaw

NextCreate ==
    \/ JournalerInit
    \/ RecoverData
    \/ \E answer \in FatCopies(number_of_fats) : CompareAndFixTables(answer)
    \/ Traverse
    \/ CorrectErrors
    \/ DetermineFreeSpace
    \/ \E input \in CreateInputs, parent \in {"root", "D"} :
          CreateFile(input.name, parent, input.contents)
    \/ \E input \in CreateInputs, parent \in {"root", "D"} :
          CreateDirectory(input.name, parent)
    \/ \E call \in RefusedCalls : CreateFile(call.name, call.parent, call.contents)
    \/ \E call \in RefusedCalls : CreateDirectory(call.name, call.parent)

SpecCreate == InitCreate /\ [][NextCreate]_vars

\* bytes.lstrip(b'\x00') of a payload: the zero slots at its head go, and a slot
\* that begins with zero bytes loses them.
RECURSIVE lstrip(_)
lstrip(payload) ==
    IF payload = <<>> THEN <<>>
    ELSE IF Head(payload) = ZeroSlot THEN lstrip(Tail(payload))
    ELSE IF Head(payload).name = "NUL"
    THEN << [Head(payload) EXCEPT !.name = "CUT"] >> \o Tail(payload)
    ELSE payload

\* bytes.rstrip(b'\x00') of a payload.
RECURSIVE rstrip(_)
rstrip(payload) ==
    IF payload = <<>> THEN <<>>
    ELSE IF payload[Len(payload)] = ZeroSlot
    THEN rstrip(SubSeq(payload, 1, Len(payload) - 1))
    ELSE payload

\* bytes.strip(b'\x00'): both ends.
strip(payload) == lstrip(rstrip(payload))

\* get_file lines 177-181: the chunks, the one of the last cluster stripped.
get_file_chunks(occ, fls, d, id) ==
    LET chain == get_file_cluster_chain(occ, fls[id])
    IN  [i \in DOMAIN chain |-> IF occ[chain[i]].next_number # None /\ occ[chain[i]].next_number # 0
                                THEN d[chain[i]] ELSE strip(d[chain[i]])]

\* A create_file call of the session has returned a file for this input.
Created(input) ==
    /\ calls = 1 /\ raised = "none"
    /\ input.name \in DOMAIN files
    /\ ~files[input.name].is_dir

\* C18: the chunks of get_file, put together, are the contents the file was
\* created with less the zero bytes at the end of its last cluster, for every
\* contents: no byte at the head or inside is dropped, also when the last
\* cluster begins with zero bytes or the length is a whole number of clusters.
C18_RoundTrip ==
    \A input \in CreateInputs :
        Created(input) =>
            Concat(get_file_chunks(occupied_clusters, files, data, input.name))
                = rstrip(input.contents)

\* A create_file or create_directory call of the session has returned an
\* object for this input.
HasReturned(input) ==
    /\ calls = 1 /\ raised = "none"
    /\ input.name \in DOMAIN files

\* max(1, ceil(len / bytes per cluster)) for the contents the object was
\* created with (none for a directory).
ClustersNeeded(input) ==
    LET len == IF files[input.name].is_dir THEN 0 ELSE Len(input.contents)
        whole == (len + SlotsPerCluster - 1) \div SlotsPerCluster
    IN  IF whole < 1 THEN 1 ELSE whole

\* C19: after a successful create_file or create_directory the cluster_count
\* of the new object and the length of its chain in the FAT are both
\* max(1, ceil(len(contents) / bytes per cluster)), for every length of the
\* contents, zero and the whole numbers of clusters included.
C19_ClusterCount ==
    \A input \in CreateInputs :
        HasReturned(input) =>
            /\ files[input.name].cluster_count = ClustersNeeded(input)
            /\ Cardinality(ReachedInFat(input.name)) = ClustersNeeded(input)

\* The open of the session left the image as it found it.
OpenedUnchanged == \A i \in DOMAIN repaired : ~repaired[i].changed

\* C20: when create_file or create_directory fails for lack of a free
\* cluster, while it reserves the clusters of the payload or while it extends
\* the parent directory for the new record, every cluster the call reserved
\* has entry 0 in every FAT copy: the FAT copies are what they were before the
\* call.
C20_RolledBack ==
    (calls = 1 /\ raised = "RuntimeWarning" /\ OpenedUnchanged) => fat = fat0

\* The image is one of those a session of this section is opened on.
ImageAsOpened ==
    \E withG \in BOOLEAN, fill \in FillCounts(fs_type) :
        /\ fat = FilledFat(fs_type, number_of_fats, withG, fill)
        /\ data = FilledData(fs_type, withG, fill)

\* C21: create_file and create_directory with a name that a child of the
\* parent already has, or that has more than 11 bytes in code page 866, raise
\* before any FAT entry, data cluster or directory record is modified: no
\* cluster stays reserved.
C21_RefusedAtOnce ==
    (calls = 1 /\ raised = "ValueError" /\ OpenedUnchanged) =>
        (fat = fat0 /\ ImageAsOpened)

\* The writes of single FAT entries the session has issued, in order, as the
\* journal announces them (write_fat_entry_for_cluster reports the cluster,
\* the value and the copy before it writes).
IsEntryWrite(line) == line.t = "EVENT" /\ line.table # None
EntryWrites == SelectSeq(journal, IsEntryWrite)

\* The FAT copies after the first i of those writes, from the copies at open.
FatAfter(i) ==
    LET After[n \in 0 .. i] ==
            IF n = 0 THEN fat0
            ELSE [After[n - 1] EXCEPT ![EntryWrites[n].table][EntryWrites[n].cluster_number]
                                          = EntryWrites[n].value]
    IN  After[i]

\* The call of the session had to extend directory d, of one cluster before.
Extended(d) ==
    /\ calls = 1 /\ raised = "none" /\ OpenedUnchanged
    /\ d \in DOMAIN files
    /\ files[d].cluster_count = 2

\* C22: a directory is extended by writing the end-of-chain mark to the entry
\* of the new cluster before the entry of the old tail is pointed at it: at no
\* point between the writes does the chain of the directory lead to a cluster
\* whose entry is 0, and afterwards the entry of the old tail is the new
\* cluster and that of the new cluster the end-of-chain mark in every copy.
C22_ExtendOrder ==
    \A d \in {"root", "D"} :
        Extended(d) =>
            LET tail == files[d].first_cluster
                new == occupied_clusters[tail].next_number
            IN  /\ \A k \in FatCopies(number_of_fats) :
                       fat[k][tail] = new /\ is_end_of_file(fs_type, fat[k][new])
                /\ \A i \in 0 .. Len(EntryWrites) : \A k \in FatCopies(number_of_fats) :
                       FatAfter(i)[k][tail] = new => FatAfter(i)[k][new] # 0

\* number_of_entries of directory d before the call of the session.
EntriesBefore(d) == IF d = "root" /\ "G" \in DOMAIN files THEN 2 ELSE 1

\* C23: the record of a new object is written inside the cluster of the parent
\* directory at chain index number_of_entries div (records per cluster), at
\* byte offset (number_of_entries mod (records per cluster)) * 32 of it, the
\* directory being extended by one cluster first when that index is beyond
\* its last cluster; number_of_entries grows by one and the cluster number and
\* the offset returned are those the record was written at.
C23_RecordPlace ==
    \A input \in CreateInputs : \A d \in {"root", "D"} :
        (HasReturned(input) /\ files[input.name].parent = d) =>
            LET before == EntriesBefore(d)
                chain == get_file_cluster_chain(occupied_clusters, files[d])
                index == before \div SlotsPerCluster
                file == files[input.name]
            IN  /\ files[d].number_of_entries = before + 1
                /\ Len(chain) = index + 1
                /\ files[d].cluster_count = index + 1
                /\ file.parent_cluster_number = chain[index + 1]
                /\ file.parent_offset = (before % SlotsPerCluster) * 32
                /\ data[file.parent_cluster_number][file.parent_offset \div 32 + 1]
                       = create_short_directory_entry(input.name, file.first_cluster, file.is_dir)

\* The clusters of the image as the session found them: G was on the image
\* when its payload is.
DataAtOpen == OpenData(fs_type, data[DCC] = DataCluster("g1"))

\* The file whose record a slot of the image at open holds was removed by the
\* repair: it is in no contents list any more.
RemovedRecord(slot) ==
    /\ slot.name \in {"D", "F", "G"}
    /\ \A d \in DOMAIN files : slot.name \notin Range(files[d].contents)

\* C24: removing the records of a file overwrites exactly the directory slots
\* that hold them with a deleted record (0xE5 and zero bytes) and modifies no
\* other slot, also when the file is the first of its parent's contents.  In
\* remove mode the repair writes to directories in no other way.
C24_OnlyOwnRecords ==
    (Opened /\ phase = "ready" /\ remove_corrupted) =>
        \A c \in {RootOf(fs_type), RootOf(fs_type) + 1} : \A i \in Slots :
            /\ data[c][i] # DataAtOpen[c][i] =>
                   (data[c][i] = empty_directory_entry /\ RemovedRecord(DataAtOpen[c][i]))
            /\ RemovedRecord(DataAtOpen[c][i]) => data[c][i] = empty_directory_entry

\* The slots of the clusters of directory d that hold a record: their first
\* byte is neither 0x00 nor 0xE5.
UsedSlots(d) ==
    {p \in Range(get_file_cluster_chain(occupied_clusters, files[d])) \X Slots :
        data[p[1]][p[2]].name \notin {"NUL", "E5"}}

\* C25: after open, and after the records appended and removed by create, by
\* the move into FOUND and by the removal of a file, number_of_entries of
\* every directory is the number of its slots that hold a record.
C25_EntriesCounted ==
    (phase = "ready" /\ raised = "none") =>
        \A d \in {x \in InTree : files[x].is_dir} :
            files[d].number_of_entries = Cardinality(UsedSlots(d))

\* The sum of cluster_count over a set of files.
RECURSIVE ClusterCounts(_)
ClusterCounts(ids) ==
    IF ids = {} THEN 0
    ELSE LET id == CHOOSE x \in ids : TRUE
         IN  files[id].cluster_count + ClusterCounts(ids \ {id})

\* The free clusters as _determine_free_space_ counts them: those of
\* range(2, data_clusters_count) whose entry in copy 0 is left zero.
FreeClusters == Cardinality({i \in 2 .. DCC - 1 : fat[0][i] = 0})

\* C26: at the end of open, and after create_file, create_directory and the
\* removal of a file, the sum of cluster_count over the files of the tree plus
\* the number of free clusters is data_clusters_count - 1.
C26_Accounting ==
    (phase = "ready" /\ raised = "none") => ClusterCounts(InTree) + FreeClusters = DCC - 1

(***************************************************************************)
(* The defragmenter and the fragmenter.  Both are built on an opened       *)
(* session and keep the set of the files that own a cluster.               *)
(***************************************************************************)
\* Defragmentator.__init__ / Fragmentator.__init__ after the session is opened:
\* the files of occupied_clusters without the root and the NoneFile.
tool_files(occ) == {occ[c].file : c \in DOMAIN occ} \ {"root", "none"}

\* swap_clusters called by a tool: the writes are issued and the session
\* changed as far as the call got.
swap_in_session(st, a, b) ==
    LET Swapped(out) == [Do(st, out.ops) EXCEPT !.occ = out.occ, !.files = out.files]
    IN  Swapped(swap_clusters(a, b, st.occ, st.files, st.fat, st.t, st.n))

\* An except ValueError clause: the exception ends there.
Caught(st) == [st EXCEPT !.raised = "none"]

\* calculate_fragmentation_level lines 34-38 for one file: the clusters of its
\* chain are visited from the head on, and the visit ends at the first one that
\* has no predecessor.
RECURSIVE misplaced_in_chain(_, _, _)
misplaced_in_chain(occ, chain, i) ==
    IF i > Len(chain) THEN 0
    ELSE IF Falsy(occ[chain[i]].previous_number) THEN 0
    ELSE (IF chain[i] # occ[chain[i]].previous_number + 1 THEN 1 ELSE 0)
         + misplaced_in_chain(occ, chain, i + 1)

RECURSIVE misplaced_clusters(_, _, _)
misplaced_clusters(occ, fls, ids) ==
    IF ids = {} THEN 0
    ELSE LET id == CHOOSE x \in ids : TRUE
         IN  misplaced_in_chain(occ, get_file_cluster_chain(occ, fls[id]), 1)
             + misplaced_clusters(occ, fls, ids \ {id})

\* calculate_fragmentation_level: the quotient of line 40 is kept as its
\* numerator and its denominator.
calculate_fragmentation_level(occ, fls, ids) ==
    LET failing == {id \in ids : file_cluster_chain(occ, fls[id]).raised # "none"}
    IN  IF failing # {}
        THEN [raised |-> file_cluster_chain(occ, fls[CHOOSE id \in failing : TRUE]).raised,
              num |-> 0, den |-> 1]
        ELSE IF DOMAIN occ = {} THEN [raised |-> "ZeroDivisionError", num |-> 0, den |-> 1]
        ELSE [raised |-> "none", num |-> misplaced_clusters(occ, fls, ids) * 100,
              den |-> Cardinality(DOMAIN occ)]

\* sorted(self._files, key=lambda x: x.first_cluster)
RECURSIVE sorted_by_first_cluster(_, _)
sorted_by_first_cluster(fls, ids) ==
    IF ids = {} THEN <<>>
    ELSE LET id == CHOOSE x \in ids : \A y \in ids : fls[x].first_cluster <= fls[y].first_cluster
         IN  << id >> \o sorted_by_first_cluster(fls, ids \ {id})

\* What the body of a loop leaves: the session and whether the function ends.
Went(st, stop) == [st |-> st, stop |-> stop]

\* How a call of swap_clusters inside try / except ValueError ends.
AfterSwap(st) ==
    IF st.raised = "ValueError" THEN Went(Caught(st), FALSE)
    ELSE Went(st, st.raised # "none")

\* _order_file_clusters_ lines 60-75: the cluster found under `cluster` is to go
\* to new_position.
RECURSIVE place_cluster(_, _, _, _)
place_cluster(st, cluster, new_position, attempts) ==
    IF cluster = new_position \/ attempts = 0 THEN Went(st, FALSE)
    ELSE IF new_position > DCC THEN Went(st, TRUE)
    ELSE IF \/ is_bad_cluster(st.t, st.fat[0][new_position])
            \/ is_reserved_cluster(st.t, st.fat[0][new_position])
    THEN place_cluster(st, cluster, new_position + 1, attempts - 1)
    ELSE AfterSwap(swap_in_session(st, cluster, new_position))

\* _order_file_clusters_ lines 55-75, for the clusters chain[i], chain[i + 1], ...
\* of the chain as it was when the function began.
RECURSIVE order_clusters_from(_, _, _)
order_clusters_from(st, chain, i) ==
    IF i > Len(chain) THEN st
    ELSE IF chain[i] \notin DOMAIN st.occ THEN Raise(st, "KeyError")
    ELSE IF Falsy(st.occ[chain[i]].previous_number) THEN order_clusters_from(st, chain, i + 1)
    ELSE LET Gone(w) == IF w.stop THEN w.st ELSE order_clusters_from(w.st, chain, i + 1)
         IN  Gone(place_cluster(st, chain[i], st.occ[chain[i]].previous_number + 1, 5))

\* _order_file_clusters_
order_file_clusters(st, id) ==
    LET From(r) == IF r.raised # "none" THEN Raise(st, r.raised)
                   ELSE order_clusters_from(st, r.chain, 1)
    IN  From(file_cluster_chain(st.occ, st.files[id]))

\* What is kept of the processing of one file: its first cluster when the files
\* were sorted and its chain when its processing ended.
Processed(st, id, first) ==
    [file |-> id, first |-> first, chain |-> get_file_cluster_chain(st.occ, st.files[id])]

\* defragmentation lines 48-49, file by file.
RECURSIVE order_files(_, _, _, _)
order_files(st, sorted, i, done) ==
    IF i > Len(sorted) \/ st.raised # "none" THEN [st |-> st, done |-> done]
    ELSE LET Next1(st1) ==
                 order_files(st1, sorted, i + 1,
                             IF st1.raised # "none" THEN done
                             ELSE Append(done, Processed(st1, sorted[i],
                                                         st.files[sorted[i]].first_cluster)))
         IN  Next1(order_file_clusters(st, sorted[i]))

\* defragmentation
defragmentation(st, ids) == order_files(st, sorted_by_first_cluster(st.files, ids), 1, <<>>)

\* _misplace_file_clusters_ lines 51-61: the object found under `cluster` is now
\* under `at`; it is moved while it lies right behind its predecessor.
RECURSIVE misplace_cluster(_, _, _, _, _, _)
misplace_cluster(st, cluster, at, new_position, attempts, fuel) ==
    IF at \notin DOMAIN st.occ THEN Went(Raise(st, "KeyError"), TRUE)
    ELSE IF st.occ[at].previous_number = None THEN Went(Raise(st, "TypeError"), TRUE)
    ELSE IF at # st.occ[at].previous_number + 1 \/ attempts = 0 THEN Went(st, FALSE)
    ELSE IF fuel = 0 THEN Went(Raise(st, "hang"), TRUE)
    ELSE IF \/ is_bad_cluster(st.t, st.fat[0][new_position])
            \/ is_reserved_cluster(st.t, st.fat[0][new_position])
    THEN misplace_cluster(st, cluster, at, new_position + 1, attempts - 1, fuel - 1)
    ELSE LET Swapped(st1) ==
                 IF st1.raised = "ValueError" THEN Went(Caught(st1), FALSE)
                 ELSE IF st1.raised # "none" THEN Went(st1, TRUE)
                 ELSE misplace_cluster(st1, cluster,
                                       IF at = cluster THEN new_position ELSE cluster,
                                       new_position, attempts, fuel - 1)
         IN  Swapped(swap_in_session(st, cluster, new_position))

\* random.randint(a, b) with the value drawn for it: an empty range raises.
randint_raises(a, b) == a > b

\* _misplace_file_clusters_ lines 43-61 for chain[i], chain[i + 1], ...; picks
\* are the offsets drawn by the calls of randint that are still to come.
RECURSIVE misplace_clusters_from(_, _, _, _, _)
misplace_clusters_from(st, id, chain, i, picks) ==
    IF i > Len(chain) THEN [st |-> st, picks |-> picks]
    ELSE IF chain[i] \notin DOMAIN st.occ THEN [st |-> Raise(st, "KeyError"), picks |-> picks]
    ELSE IF Falsy(st.occ[chain[i]].previous_number)
    THEN misplace_clusters_from(st, id, chain, i + 1, picks)
    ELSE IF randint_raises(st.files[id].first_cluster, DCC - 15)
    THEN [st |-> Raise(st, "ValueError"), picks |-> picks]
    ELSE IF picks = <<>> \/ st.files[id].first_cluster + Head(picks) > DCC - 15
    THEN [st |-> Raise(st, "undrawn"), picks |-> picks]
    ELSE LET Gone(w) == IF w.stop THEN [st |-> w.st, picks |-> Tail(picks)]
                        ELSE misplace_clusters_from(w.st, id, chain, i + 1, Tail(picks))
         IN  Gone(misplace_cluster(st, chain[i], chain[i],
                                   st.files[id].first_cluster + Head(picks), 5, 4))

\* _misplace_file_clusters_
misplace_file_clusters(st, id, picks) ==
    LET From(r) == IF r.raised # "none" THEN [st |-> Raise(st, r.raised), picks |-> picks]
                   ELSE misplace_clusters_from(st, id, r.chain, 1, picks)
    IN  From(file_cluster_chain(st.occ, st.files[id]))

\* fragmentation lines 36-37, file by file.
RECURSIVE misplace_files(_, _, _, _)
misplace_files(st, sorted, i, picks) ==
    IF i > Len(sorted) \/ st.raised # "none" THEN [st |-> st, picks |-> picks]
    ELSE LET Next1(w) == misplace_files(w.st, sorted, i + 1, w.picks)
         IN  Next1(misplace_file_clusters(st, sorted[i], picks))

\* fragmentation
fragmentation(st, ids, picks) ==
    misplace_files(st, sorted_by_first_cluster(st.files, ids), 1, picks)

(***************************************************************************)
(* The images the tools are run on: \D\F with the clusters of F in any     *)
(* order among the four clusters behind D, and possibly one cluster marked *)
(* bad; the journal holds the path line only.                              *)
(***************************************************************************)
MaxChain == 3
MaxToolOpens == 3
MaxToolCalls == 4
MaxPicks == 2

ChainClusters(t) == RootOf(t) + 2 .. RootOf(t) + 5
BadClusters(t) == {RootOf(t) + 3, RootOf(t) + 4}

Chains(t) ==
    {chain \in UNION {[1 .. n -> ChainClusters(t)] : n \in 2 .. MaxChain} :
        \A i, j \in DOMAIN chain : i # j => chain[i] # chain[j]}

ChainPayload(i) == DataCluster(IF i = 1 THEN "f1" ELSE IF i = 2 THEN "f2" ELSE "f3")

ChainFat(t, n, chain, bad) ==
    [k \in FatCopies(n) |->
        [c \in Clusters |->
            IF c = bad THEN bad_cluster_markers(t)
            ELSE IF c \in Range(chain)
            THEN (IF IndexOf(chain, c) = Len(chain) THEN end_of_file_markers(t)
                  ELSE chain[IndexOf(chain, c) + 1])
            ELSE IF c \in ChainClusters(t) THEN 0
            ELSE InitFat(t, n)[k][c]]]

ChainData(t, chain) ==
    [c \in PayloadClusters |->
        IF c \in Range(chain) THEN ChainPayload(IndexOf(chain, c))
        ELSE IF c = RootOf(t) + 1
        THEN DirCluster(create_short_directory_entry("F", chain[1], FALSE))
        ELSE IF c \in ChainClusters(t) THEN ZeroCluster
        ELSE InitData(t)[c]]

InitDefrag ==
    /\ fs_type \in {fat16, fat32}
    /\ number_of_fats = 2
    /\ \E chain \in Chains(fs_type), bad \in {None} \cup BadClusters(fs_type) :
          /\ bad \notin Range(chain)
          /\ fat = ChainFat(fs_type, number_of_fats, chain, bad)
          /\ data = ChainData(fs_type, chain)
    /\ journal = << PathLine(ImagePath) >>
    /\ default_table = None
    /\ boot_root = IF fs_type = fat32 THEN RootOf(fs_type) ELSE None
    /\ remove_corrupted = FALSE
    /\ occupied_clusters = <<>>
    /\ files = <<>>
    /\ pending = <<>>
    /\ buf = << ZeroCluster, ZeroCluster >>
    /\ raised = "none"
    /\ swaps = <<>>
    /\ pre = NoImage
    /\ post = ImageOf(NoImage)
    /\ base = NoImage
    /\ phase = "closed"
    /\ unclosed_transactions = <<>>
    /\ corrupted_clusters = <<>>
    /\ found_directory = "None"
    /\ log = <<>>
    /\ fat0 = <<>>
    /\ opens = 0
    /\ repaired = <<>>
    /\ calls = 0
    /\ tool = NoTool
    /\ history = <<>>
    /\ raw = NoRaw

\* One call on a tool: what it returned or raised.
ToolCall(op, exception, num, den, done) ==
    [op |-> op, raised |-> exception, num |-> num, den |-> den, done |-> done]

Ran(op) == \E i \in DOMAIN history : history[i].op = op
LastOp == IF history = <<>> THEN "none" ELSE history[Len(history)].op

\* Defragmentator.__init__ lines 17-26 / Fragmentator.__init__ lines 19-28, on
\* the session that FileSystemProcessor.__init__ has opened.
BuildTool ==
    /\ phase = "ready" /\ raised = "none" /\ ~tool.built
    /\ IF "root" \in {occupied_clusters[c].file : c \in DOMAIN occupied_clusters}
       THEN /\ tool' = [built |-> TRUE, files |-> tool_files(occupied_clusters)]
            /\ UNCHANGED << raised, phase >>
       ELSE /\ raised' = "KeyError"
            /\ phase' = "failed"
            /\ UNCHANGED tool
    /\ UNCHANGED << fs_type, number_of_fats, fat, data, boot_root, journal,
                    occupied_clusters, files, pending, buf, swaps, pre, post, base,
                    unclosed_transactions, corrupted_clusters, default_table,
                    remove_corrupted, found_directory, log, fat0, opens, repaired, calls,
                    history, raw >>

\* Defragmentator.calculate_fragmentation_level
CalculateFragmentationLevel ==
    /\ phase = "ready" /\ raised = "none" /\ tool.built
    /\ LastOp # "calculate_fragmentation_level"
    /\ Len(history) < MaxToolCalls
    /\ LET Returned1(level) ==
               /\ history' = Append(history, ToolCall("calculate_fragmentation_level",
                                                      level.raised, level.num, level.den, <<>>))
               /\ raised' = level.raised
       IN  Returned1(calculate_fragmentation_level(occupied_clusters, files, tool.files))
    /\ UNCHANGED << fs_type, number_of_fats, fat, data, boot_root, journal,
                    occupied_clusters, files, pending, buf, swaps, pre, post, base, phase,
                    unclosed_transactions, corrupted_clusters, default_table,
                    remove_corrupted, found_directory, log, fat0, opens, repaired, calls,
                    tool, raw >>

\* The offsets that randint draws from file.first_cluster on.
Picks == UNION {[1 .. n -> 0 .. DCC - 15 - 2] : n \in 0 .. MaxPicks}

\* Fragmentator.fragmentation
Fragmentation(picks) ==
    /\ CanCall /\ tool.built
    /\ ~Ran("fragmentation") /\ ~Ran("defragmentation")
    /\ Len(history) < MaxToolCalls
    /\ LET Ended(w) ==
               /\ w.picks = <<>>
               /\ w.st.raised # "undrawn"
               /\ Called(w.st)
               /\ history' = Append(history, ToolCall("fragmentation", w.st.raised, 0, 1, <<>>))
       IN  Ended(fragmentation(Session, tool.files, picks))
    /\ UNCHANGED tool
    /\ UNCHANGED raw

\* Defragmentator.defragmentation
Defragmentation ==
    /\ CanCall /\ tool.built
    /\ ~Ran("defragmentation")
    /\ Len(history) < MaxToolCalls
    /\ LET Ended(w) ==
               /\ Called(w.st)
               /\ history' = Append(history, ToolCall("defragmentation", w.st.raised, 0, 1,
                                                      w.done))
       IN  Ended(defragmentation(Session, tool.files))
    /\ UNCHANGED tool
    /\ UNCHANGED raw

\* The process ends and leaves the image and the journal to the next tool.
Close ==
    /\ phase = "ready" /\ raised = "none" /\ tool.built
    /\ LastOp \in {"calculate_fragmentation_level", "fragmentation"}
    /\ ~Ran("defragmentation")
    /\ opens < MaxToolOpens
    /\ phase' = "closed"
    /\ occupied_clusters' = <<>>
    /\ files' = <<>>
    /\ found_directory' = "None"
    /\ tool' = NoTool
    /\ calls' = 0
    /\ UNCHANGED << fs_type, number_of_fats, fat, data, boot_root, journal, pending, buf,
                    raised, swaps, pre, post, base, unclosed_transactions,
                    corrupted_clusters, default_table, remove_corrupted, log, fat0,
                    opens, repaired, history, raw >>

\* The clusters swap_clusters is called with on these images.
ToolSwapArgs(t) == RootOf(t) + 2 .. RootOf(t) + 4

NextDefrag ==
    \/ JournalerInit
    \/ RecoverData
    \/ \E answer \in FatCopies(number_of_fats) : CompareAndFixTables(answer)
    \/ Traverse
    \/ CorrectErrors
    \/ DetermineFreeSpace
    \/ BuildTool
    \/ CalculateFragmentationLevel
    \/ \E picks \in Picks : Fragmentation(picks)
    \/ Defragmentation
    \/ \E a, b \in ToolSwapArgs(fs_type) : ~tool.built /\ history = <<>> /\ SessionSwap(a, b)
    \/ Close

SpecDefrag == InitDefrag /\ [][NextDefrag]_vars

(***************************************************************************)
(* The fragmentation level, and what the tools leave.                      *)
(***************************************************************************)
LastCall == history[Len(history)]
LevelReturned == tool.built /\ LastOp = "calculate_fragmentation_level" /\ raised = "none"

\* The links of the chain of file id, other than the head, whose cluster is not
\* the one right behind its predecessor.
MisplacedLinksOf(id) ==
    LET chain == get_file_cluster_chain(occupied_clusters, files[id])
    IN  {i \in 2 .. Len(chain) : chain[i] # chain[i - 1] + 1}

RECURSIVE MisplacedLinks(_)
MisplacedLinks(ids) ==
    IF ids = {} THEN 0
    ELSE LET id == CHOOSE x \in ids : TRUE
         IN  Cardinality(MisplacedLinksOf(id)) + MisplacedLinks(ids \ {id})

\* C27: calculate_fragmentation_level returns 100 * M / O, with M the number of
\* links, other than heads, of the files other than the root and the NoneFile
\* whose cluster is not its predecessor's + 1 and O the number of occupied
\* clusters; the result is above 0 whenever there is such a link.
C27_Level ==
    LevelReturned =>
        /\ LastCall.num = 100 * MisplacedLinks(tool.files)
        /\ LastCall.den = Cardinality(DOMAIN occupied_clusters)

\* The calls of the scenario so far: the level on open, fragmentation() and, on a
\* fresh open, defragmentation() and the level again.
Scenario == << "calculate_fragmentation_level", "fragmentation", "defragmentation",
               "calculate_fragmentation_level" >>
InScenario == \A i \in DOMAIN history : history[i].op = Scenario[i]

\* | a.num / a.den - b.num / b.den | <= 1
WithinOne(a, b) ==
    LET diff == a.num * b.den - b.num * a.den
    IN  (IF diff < 0 THEN 0 - diff ELSE diff) <= a.den * b.den

\* C28: with r0 the level on open, fragmentation() and then, on a fresh open,
\* defragmentation() run to their ends for every choice of the fragmenter's random
\* targets, and the level r1 computed afterwards has |r0 - r1| <= 1.0.
C28_FragmentDefragment ==
    InScenario =>
        /\ \A i \in DOMAIN history : history[i].raised = "none"
        /\ Len(history) = 4 => WithinOne(history[1], history[4])

Defragmented == tool.built /\ LastOp = "defragmentation" /\ raised = "none"

NoBadOrReserved ==
    \A c \in 2 .. DCC : /\ ~is_bad_cluster(fs_type, fat[0][c])
                        /\ ~is_reserved_cluster(fs_type, fat[0][c])

Contiguous(chain) == \A i \in 2 .. Len(chain) : chain[i] = chain[i - 1] + 1

ProcessedAscending ==
    \A i \in 1 .. Len(LastCall.done) - 1 : LastCall.done[i].first < LastCall.done[i + 1].first

\* C29: defragmentation processes the files in ascending order of their first
\* clusters and, on an image without bad or reserved entries and with no swap
\* that fails, when the processing of a file ends every cluster of its chain
\* but the head lies right behind its predecessor, whatever the length and the
\* order of the chain were.
C29_Ordered ==
    (Defragmented /\ NoBadOrReserved) =>
        /\ ProcessedAscending
        /\ \A i \in DOMAIN LastCall.done : Contiguous(LastCall.done[i].chain)

\* A call of swap_clusters that the claim has refused.
InvalidSwap(a, b) ==
    \/ a = b
    \/ fat[0][a] = bad_cluster_markers(fs_type)
    \/ fat[0][b] = bad_cluster_markers(fs_type)

\* C30: swap_clusters(a, b) raises (ValueError) when a = b or when the entry of a
\* or of b in FAT copy 0 is the bad-cluster mark, and has then written to no FAT
\* copy, to no data cluster or directory record and to no boot field, and has
\* added no line to the journal.
C30_InvalidSwapRefused ==
    [][\A a, b \in ToolSwapArgs(fs_type) :
           (InvalidSwap(a, b) /\ SessionSwap(a, b)) =>
               /\ raised' = "ValueError"
               /\ fat' = fat /\ data' = data /\ boot_root' = boot_root
               /\ journal' = journal]_vars

\* swap_clusters has refused a cluster of F and a bad cluster: the call has
\* raised after taking both out of occupied_clusters.
C30_Witness ==
    /\ calls = 1 /\ raised = "ValueError" /\ history = <<>>
    /\ \E c \in ToolSwapArgs(fs_type) : fat[0][c] = bad_cluster_markers(fs_type)
    /\ files["F"].first_cluster \notin DOMAIN occupied_clusters

\* swap_clusters has refused to swap a cluster with itself.
C30_SameCluster ==
    /\ calls = 1 /\ raised = "ValueError" /\ history = <<>>
    /\ NoBadOrReserved

(***************************************************************************)
(* The FAT entry codec at the level of bytes (file_system_processor.py     *)
(* lines 46-108).  A FAT copy is the sequence of its bytes; the byte at    *)
(* offset o from the start of the copy is table[o + 1].                    *)
(***************************************************************************)
fat12 == 0
\* Writes of one run of the codec.
MaxCodecWrites == 2

\* FSType.byte_entry_length, FSType.bit_entry_length
byte_entry_length(t) == IF t = fat32 THEN 4 ELSE 2
bit_entry_length(t) == IF t = fat12 THEN 12 ELSE IF t = fat16 THEN 16 ELSE 28

RECURSIVE Power(_, _)
Power(b, e) == IF e = 0 THEN 1 ELSE b * Power(b, e - 1)

\* value.to_bytes(length, byteorder='little')
to_bytes(value, length) == [i \in 1 .. length |-> (value \div Power(256, i - 1)) % 256]

\* int.from_bytes(entry, byteorder='little')
RECURSIVE from_bytes(_)
from_bytes(entry) == IF entry = <<>> THEN 0 ELSE Head(entry) + 256 * from_bytes(Tail(entry))

\* bytes.hex(): two hexadecimal digits for every byte, the high one first.
hex(entry) == [i \in 1 .. 2 * Len(entry) |-> IF i % 2 = 1 THEN entry[(i + 1) \div 2] \div 16
                                                         ELSE entry[i \div 2] % 16]
\* bytes.fromhex()
fromhex(digits) == [i \in 1 .. Len(digits) \div 2 |-> 16 * digits[2 * i - 1] + digits[2 * i]]

\* find_fat_entry_for_cluster, from the start of FAT copy fat_number: the
\* exception it raises, or the offset of the entry.
find_fat_entry_for_cluster(t, n, fat_number, nfats) ==
    IF fat_number >= nfats \/ n > DCC THEN [raised |-> "RuntimeWarning", offset |-> 0]
    ELSE [raised |-> "none",
          offset |-> IF t = fat12 THEN n + n \div 2 ELSE IF t = fat16 THEN n * 2 ELSE n * 4]

\* read_fat_entry_for_cluster lines 70-84 on the bytes read at the entry.
decode_fat_entry(t, n, bytes) ==
    LET entry == hex(bytes)
    IN  IF t = fat32
        THEN fromhex(SubSeq(entry, 1, Len(entry) - 2) \o << 0 >> \o << entry[Len(entry)] >>)
        ELSE IF t = fat12
        THEN fromhex((IF n % 2 = 0 THEN SubSeq(entry, 1, Len(entry) - 1)
                                   ELSE SubSeq(entry, 2, Len(entry))) \o << 0 >>)
        ELSE fromhex(entry)

\* read_fat_entry_for_cluster on the bytes of the FAT copies.
read_fat_entry_bytes(t, tables, n, fat_number, nfats) ==
    LET At(place) ==
            IF place.raised # "none" THEN [raised |-> place.raised, entry |-> <<>>]
            ELSE [raised |-> "none",
                  entry |-> decode_fat_entry(t, n, SubSeq(tables[fat_number], place.offset + 1,
                                                           place.offset + byte_entry_length(t)))]
    IN  At(find_fat_entry_for_cluster(t, n, fat_number, nfats))

\* write_fat_entry_for_cluster lines 93-102: the bytes that are written for value.
byte_value_of(t, n, value, neighbour) ==
    LET byte_value == to_bytes(value, byte_entry_length(t))
    IN  IF t # fat12 THEN byte_value
        ELSE IF n % 2 = 0 THEN Tail(byte_value) \o SubSeq(neighbour, 1, 1)
        ELSE SubSeq(neighbour, Len(neighbour), Len(neighbour)) \o Tail(byte_value)

\* bytes written over table from offset on.
Overwrite(table, offset, bytes) ==
    [i \in DOMAIN table |-> IF i > offset /\ i <= offset + Len(bytes) THEN bytes[i - offset]
                            ELSE table[i]]

\* write_fat_entry_for_cluster on the bytes of the FAT copies: the exception
\* it ends with, the FAT copies and the journal lines it leaves.
write_fat_entry_bytes(t, tables, n, value, fat_number, nfats) ==
    LET Ended(exception, tbls, lines) == [raised |-> exception, tables |-> tbls, lines |-> lines]
        Begun == << open_transaction(tx_write_table), report(n, value, fat_number) >>
        Written(byte_value, place) ==
            IF place.raised # "none" THEN Ended(place.raised, tables, Begun)
            ELSE Ended("none",
                       [tables EXCEPT ![fat_number] = Overwrite(@, place.offset, byte_value)],
                       Begun \o << close_transaction >>)
        Patched(neighbour) ==
            IF neighbour.raised # "none" THEN Ended(neighbour.raised, tables, <<>>)
            ELSE Written(byte_value_of(t, n, value, neighbour.entry),
                         find_fat_entry_for_cluster(t, n, fat_number, nfats))
    IN  IF value >= Power(2, bit_entry_length(t)) THEN Ended("AttributeError", tables, <<>>)
        ELSE IF t = fat12 THEN Patched(read_fat_entry_bytes(t, tables, n - 1, fat_number, nfats))
        ELSE Written(byte_value_of(t, n, value, <<>>),
                     find_fat_entry_for_cluster(t, n, fat_number, nfats))

\* The images of the codec: every byte of the FAT copies holds the same value.
FillBytes == {0, 60, 165, 255}
\* Bytes of one FAT copy (entries 0 .. DCC of four bytes at most).
TableBytes == 4 * (DCC + 1)
\* The entries written and read, and the values written: the smallest ones,
\* one with a different digit in every place, the largest one and the first
\* one that does not fit.
CodecClusters == {2, 3, 4, DCC + 1}
CodecValues(t) ==
    IF t = fat12 THEN {0, 3, 2748, 4095, 4096}
    ELSE IF t = fat16 THEN {0, 3, 43981, 65535, 65536}
    ELSE {0, 3, 180150001, 268435455, 268435456}

\* No call of the codec has been made.
NoCodecCall == [op |-> "none", n |-> 0, value |-> 0, fat_number |-> 0, raised |-> "none",
                entry |-> <<>>]
CodecCall(op, n, value, fat_number, exception, entry) ==
    [op |-> op, n |-> n, value |-> value, fat_number |-> fat_number, raised |-> exception,
     entry |-> entry]

InitCodec ==
    /\ fs_type \in {fat12, fat16, fat32}
    /\ number_of_fats = 2
    /\ \E b \in FillBytes :
           raw = [tables |-> [k \in 0 .. 1 |-> [i \in 1 .. TableBytes |-> b]],
                  before |-> [k \in 0 .. 1 |-> [i \in 1 .. TableBytes |-> b]],
                  write |-> NoCodecCall, read |-> NoCodecCall, writes |-> 0]
    /\ fat = <<>> /\ data = <<>> /\ boot_root = None
    /\ journal = << PathLine(ImagePath) >>
    /\ occupied_clusters = <<>> /\ files = <<>>
    /\ pending = <<>> /\ buf = <<>> /\ raised = "none" /\ swaps = <<>>
    /\ pre = NoImage /\ post = NoImage /\ base = NoImage
    /\ phase = "ready"
    /\ unclosed_transactions = <<>> /\ corrupted_clusters = <<>>
    /\ default_table = 0 /\ remove_corrupted = FALSE /\ found_directory = "None"
    /\ log = <<>> /\ fat0 = <<>> /\ opens = 1 /\ repaired = <<>> /\ calls = 0
    /\ tool = NoTool
    /\ history = <<>>

\* What no call of the codec changes.
codecfixed == << fs_type, number_of_fats, fat, data, boot_root, occupied_clusters, files,
                 pending, buf, swaps, pre, post, base, phase, unclosed_transactions,
                 corrupted_clusters, default_table, remove_corrupted, found_directory,
                 log, fat0, opens, repaired, calls, tool, history >>

\* write_fat_entry_for_cluster(n, value, fat_number)
WriteFatEntry(n, value, fat_number) ==
    /\ raw.writes < MaxCodecWrites
    /\ raised = "none"
    /\ LET Ended(out) ==
               /\ raw' = [tables |-> out.tables, before |-> raw.tables,
                          write |-> CodecCall("write", n, value, fat_number, out.raised, <<>>),
                          read |-> NoCodecCall, writes |-> raw.writes + 1]
               /\ journal' = journal \o out.lines
               /\ raised' = out.raised
       IN  Ended(write_fat_entry_bytes(fs_type, raw.tables, n, value, fat_number,
                                       number_of_fats))
    /\ UNCHANGED codecfixed

\* read_fat_entry_for_cluster(n, fat_number)
ReadFatEntry(n, fat_number) ==
    /\ raw.read.op = "none"
    /\ raised = "none"
    /\ LET Ended(out) ==
               /\ raw' = [raw EXCEPT !.read = CodecCall("read", n, 0, fat_number, out.raised,
                                                        out.entry)]
               /\ raised' = out.raised
       IN  Ended(read_fat_entry_bytes(fs_type, raw.tables, n, fat_number, number_of_fats))
    /\ UNCHANGED journal
    /\ UNCHANGED codecfixed

NextCodec ==
    \/ \E n \in CodecClusters, value \in CodecValues(fs_type), k \in 0 .. number_of_fats :
           WriteFatEntry(n, value, k)
    \/ \E n \in 1 .. 5 \cup {DCC + 1}, k \in 0 .. number_of_fats : ReadFatEntry(n, k)

SpecCodec == InitCodec /\ [][NextCodec]_vars

\* The last call of write_fat_entry_for_cluster has returned.
Wrote == raw.write.op = "write" /\ raw.write.raised = "none"
\* The entry written last has been read back from the same copy.
ReadBack ==
    /\ Wrote /\ raw.read.op = "read" /\ raw.read.raised = "none"
    /\ raw.read.n = raw.write.n /\ raw.read.fat_number = raw.write.fat_number
\* The top four bits of the 32-bit slot of entry n.
TopBits(table, n) == table[4 * n + 4] \div 16

\* C31: on FAT32, write_fat_entry_for_cluster(c, v, k) with v of at most 28 bits
\* leaves the top four bits of the slot of entry c in copy k as they were, and
\* a read of entry c that follows returns v.
C31_Fat32Write ==
    (fs_type = fat32 /\ Wrote) =>
        /\ TopBits(raw.tables[raw.write.fat_number], raw.write.n)
               = TopBits(raw.before[raw.write.fat_number], raw.write.n)
        /\ ReadBack => from_bytes(raw.read.entry) = raw.write.value

\* The part of C31 that the code keeps: the value read back is the one written,
\* whatever the top four bits of the slot are.
C31_ReadBack == (fs_type = fat32 /\ ReadBack) => from_bytes(raw.read.entry) = raw.write.value

\* A FAT32 entry whose slot had a reserved bit set has been written and read back.
C31_Witness ==
    /\ fs_type = fat32 /\ ReadBack
    /\ TopBits(raw.before[raw.write.fat_number], raw.write.n) # 0

\* The value that a read of entry n of copy k returns on the given FAT copies.
EntryRead(tables, n, k) ==
    from_bytes(read_fat_entry_bytes(fs_type, tables, n, k, number_of_fats).entry)
\* The entries next to the one written last have the values they had.
NeighboursKept ==
    \A n \in {raw.write.n - 1, raw.write.n + 1} :
        EntryRead(raw.tables, n, raw.write.fat_number)
            = EntryRead(raw.before, n, raw.write.fat_number)

\* C32: on FAT12, for even and for odd c, writing v <= 0xFFF to entry c of copy
\* k makes a read of entry c that follows return v, and leaves the values read
\* for the entries c - 1 and c + 1 as they were.
C32_Fat12Write ==
    (fs_type = fat12 /\ Wrote) =>
        /\ ReadBack => from_bytes(raw.read.entry) = raw.write.value
        /\ NeighboursKept

\* A FAT12 entry has been written and read back: an even one, an odd one.
C32_Witness == fs_type = fat12 /\ ReadBack /\ raw.write.n % 2 = 0 /\ raw.write.value = 2748
C32_WitnessOdd == fs_type = fat12 /\ ReadBack /\ raw.write.n % 2 = 1 /\ raw.write.value = 2748

(***************************************************************************)
(* The root directory of FAT12/16 (file_system_processor.py lines 275-276, *)
(* 325-331, 488-490, 532-548, 576-577).                                    *)
(***************************************************************************)
\* Largest _root_dir_sectors of the images.
MaxRootSectors == 16
\* sectors_per_cluster of the images.
SectorsPerCluster == {1, 2, 4, 8}
\* Entry 1 of a FAT16 table: all bits set, or the clean-shutdown bit cleared.
ReservedEntries == {65535, 32767}

\* Python's a // b for b > 0, from the quotient of the magnitudes.
floordiv(a, b) ==
    IF a >= 0 THEN a \div b
    ELSE IF (0 - a) % b = 0 THEN 0 - ((0 - a) \div b)
    ELSE 0 - ((0 - a) \div b) - 1

\* _determine_fat_type_ line 331
root_cluster_of(root_dir_sectors, sectors_per_cluster) ==
    floordiv(0 - root_dir_sectors, sectors_per_cluster) + 2

\* _get_cluster_chain_: the chain, the error and the number of FAT entries read.
get_cluster_chain_of(first_cluster, root_dir_sectors, sectors_per_cluster, occ, table, t) ==
    LET Walked(r) == [chain |-> r.chain, error |-> r.error, raised |-> r.raised,
                      lookups |-> Len(r.chain)]
    IN  IF first_cluster < 0
        THEN [chain |-> [x \in 1 .. floordiv(root_dir_sectors, sectors_per_cluster) |->
                             x - 1 + first_cluster],
              error |-> NoError, raised |-> "none", lookups |-> 0]
        ELSE Walked(get_cluster_chain(first_cluster, occ, table, t))

\* _set_occupied_clusters_ lines 539-548 for a chain without error.
occupied_of_chain(chain, id) ==
    [k \in Range(chain) |->
        LET i == CHOOSE j \in DOMAIN chain : chain[j] = k
        IN  OccupiedClusterInfo(k, IF i = 1 THEN None ELSE chain[i - 1],
                                IF i = Len(chain) THEN None ELSE chain[i + 1], id)]

InitRoot ==
    /\ fs_type = fat16
    /\ number_of_fats = 2
    /\ \E rds \in 1 .. MaxRootSectors, spc \in SectorsPerCluster :
           raw = [root_dir_sectors |-> rds, sectors_per_cluster |-> spc,
                  root_cluster |-> 0, chain |-> <<>>, error |-> NoError, lookups |-> 0]
    /\ \E entry \in ReservedEntries :
           fat = [k \in 0 .. 1 |-> [c \in Clusters |->
                      IF c = 0 THEN end_of_file_markers(fat16) ELSE IF c = 1 THEN entry ELSE 0]]
    /\ data = <<>> /\ boot_root = None
    /\ journal = << PathLine(ImagePath) >>
    /\ occupied_clusters = <<>> /\ files = <<>>
    /\ pending = <<>> /\ buf = <<>> /\ raised = "none" /\ swaps = <<>>
    /\ pre = NoImage /\ post = NoImage /\ base = NoImage
    /\ phase = "tables"
    /\ unclosed_transactions = <<>> /\ corrupted_clusters = <<>>
    /\ default_table = 0 /\ remove_corrupted = FALSE /\ found_directory = "None"
    /\ log = <<>> /\ fat0 = <<>> /\ opens = 1 /\ repaired = <<>> /\ calls = 0
    /\ tool = NoTool
    /\ history = <<>>

\* What the steps of open that place the root leave alone.
rootfixed == << fs_type, number_of_fats, fat, data, boot_root, journal, files, pending, buf,
                swaps, pre, post, base, unclosed_transactions, corrupted_clusters,
                default_table, remove_corrupted, found_directory, log, fat0, opens,
                repaired, calls, tool, history >>

\* _determine_fat_type_ lines 325-331 on a FAT12/16 image.
DetermineRootCluster ==
    /\ phase = "tables"
    /\ raw' = [raw EXCEPT !.root_cluster = root_cluster_of(raw.root_dir_sectors,
                                                           raw.sectors_per_cluster)]
    /\ phase' = "traversal"
    /\ UNCHANGED << occupied_clusters, raised >>
    /\ UNCHANGED rootfixed

\* _file_system_traversal_ lines 576-577: the root directory is made and its
\* chain is entered in occupied_clusters.
InstallRootChain ==
    /\ phase = "traversal"
    /\ LET Entered(r) ==
               IF r.raised # "none" \/ r.chain = <<>>
               THEN /\ raised' = (IF r.raised # "none" THEN r.raised ELSE "IndexError")
                    /\ phase' = "failed"
                    /\ UNCHANGED << raw, occupied_clusters >>
               ELSE /\ raw' = [raw EXCEPT !.chain = r.chain, !.error = r.error,
                                          !.lookups = r.lookups]
                    /\ occupied_clusters' = occupied_of_chain(r.chain, "root")
                    /\ phase' = "errors"
                    /\ UNCHANGED raised
       IN  Entered(get_cluster_chain_of(raw.root_cluster, raw.root_dir_sectors,
                                        raw.sectors_per_cluster, <<>>, fat[0], fs_type))
    /\ UNCHANGED rootfixed

NextRoot == DetermineRootCluster \/ InstallRootChain

SpecRoot == InitRoot /\ [][NextRoot]_vars

\* The smallest number of clusters that hold n sectors.
ClustersFor(n, sectors_per_cluster) == (n + sectors_per_cluster - 1) \div sectors_per_cluster

\* C33: on FAT12/16 the chain of the root starts at the virtual cluster number
\* 2 - ceil(RDS / SPC) and consists of exactly ceil(RDS / SPC) consecutive
\* cluster numbers obtained without any FAT lookup, and open installs it as the
\* chain of the root without error.
C33_RootChain ==
    LET n == ClustersFor(raw.root_dir_sectors, raw.sectors_per_cluster)
    IN  /\ phase # "failed"
        /\ phase # "tables" => raw.root_cluster = 2 - n
        /\ phase = "errors" =>
               /\ raw.chain = [x \in 1 .. n |-> raw.root_cluster + x - 1]
               /\ raw.error = NoError
               /\ raw.lookups = 0
               /\ DOMAIN occupied_clusters = Range(raw.chain)

\* The part of C33 that the code keeps: the virtual cluster number, and the
\* chain of a root region of three clusters or more that fills its last one.
C33_WholeClusters ==
    LET n == ClustersFor(raw.root_dir_sectors, raw.sectors_per_cluster)
    IN  /\ phase # "failed"
        /\ phase # "tables" => raw.root_cluster = 2 - n
        /\ (phase = "errors" /\ n >= 3 /\ raw.root_dir_sectors % raw.sectors_per_cluster = 0) =>
               /\ raw.chain = [x \in 1 .. n |-> raw.root_cluster + x - 1]
               /\ raw.error = NoError
               /\ raw.lookups = 0
               /\ DOMAIN occupied_clusters = Range(raw.chain)

\* The chain of a root region that ends inside a cluster has been installed.
C33_Witness ==
    /\ phase = "errors" /\ raw.root_cluster < 0
    /\ raw.root_dir_sectors % raw.sectors_per_cluster # 0

(***************************************************************************)
(* The walk of a chain (_get_cluster_chain_, lines 484-509) on its own,    *)
(* over every content of the entries of a few clusters.                    *)
(***************************************************************************)
\* The clusters whose entries vary and the clusters a walk starts from.
WalkClusters == 2 .. 4
WalkFirst == 2 .. 3
\* The entries: free, a cluster, an end-of-chain mark, the bad-cluster mark
\* and a reserved number.
WalkEntries(t) == {0} \cup WalkClusters \cup {end_of_file_markers(t), bad_cluster_markers(t), DCC}
\* The keys occupied_clusters has when the walk begins.
WalkOccupied == {{}, {0}, {0, 4}, {0, 3, 4}}

InitWalk ==
    /\ fs_type \in {fat16, fat32}
    /\ number_of_fats = 1
    /\ \E entries \in [WalkClusters -> WalkEntries(fs_type)] :
           fat = [k \in {0} |-> [c \in Clusters |->
                      IF c \in WalkClusters THEN entries[c]
                      ELSE IF c < 2 THEN end_of_file_markers(fs_type) ELSE 0]]
    /\ \E keys \in WalkOccupied :
           occupied_clusters = [k \in keys |-> OccupiedClusterInfo(k, None, None, "none")]
    /\ raw = [first |-> None, chain |-> <<>>, error |-> NoError]
    /\ data = <<>> /\ boot_root = None
    /\ journal = << PathLine(ImagePath) >>
    /\ files = <<>>
    /\ pending = <<>> /\ buf = <<>> /\ raised = "none" /\ swaps = <<>>
    /\ pre = NoImage /\ post = NoImage /\ base = NoImage
    /\ phase = "traversal"
    /\ unclosed_transactions = <<>> /\ corrupted_clusters = <<>>
    /\ default_table = 0 /\ remove_corrupted = FALSE /\ found_directory = "None"
    /\ log = <<>> /\ fat0 = <<>> /\ opens = 1 /\ repaired = <<>> /\ calls = 0
    /\ tool = NoTool
    /\ history = <<>>

\* _get_cluster_chain_(first_cluster)
GetClusterChain(first_cluster) ==
    /\ raw.first = None
    /\ first_cluster \notin DOMAIN occupied_clusters
    /\ LET Returned1(r) ==
               /\ raw' = [first |-> first_cluster, chain |-> r.chain, error |-> r.error]
               /\ raised' = r.raised
       IN  Returned1(get_cluster_chain(first_cluster, occupied_clusters, fat[0], fs_type))
    /\ UNCHANGED << fs_type, number_of_fats, fat, data, boot_root, journal,
                    occupied_clusters, files, pending, buf, swaps, pre, post, base, phase,
                    unclosed_transactions, corrupted_clusters, default_table,
                    remove_corrupted, found_directory, log, fat0, opens, repaired, calls,
                    tool, history >>

NextWalk == \E first_cluster \in WalkFirst : GetClusterChain(first_cluster)

SpecWalk == InitWalk /\ [][NextWalk]_vars

\* The walk has returned.
Walked == raw.first # None /\ raised = "none"

\* What the entry `next` found at cluster cur makes of the walk: "end" for an
\* end-of-chain mark, the error in the order of precedence, or "on".
Classified(cur, next) ==
    IF is_end_of_file(fs_type, next) THEN "end"
    ELSE IF next = cur THEN "self_loop"
    ELSE IF next \in DOMAIN occupied_clusters THEN "cluster_intersection"
    ELSE IF next = bad_cluster_markers(fs_type) \/ next > DCC - 1 THEN "bad_cluster"
    ELSE "on"

\* C34: the walk from f over FAT copy 0 returns (chain, none) as soon as the
\* next entry is an end-of-chain mark; otherwise it stops at the first
\* cluster cur whose entry next is, in this order, cur itself (SELF_LOOP), a
\* key of occupied_clusters (CLUSTER_INTERSECTION), or the bad-cluster mark or a
\* reserved value above DCC - 1 (BAD_CLUSTER); the chain lists the clusters
\* visited from f up to cur, each once, and the error carries (cur, next).
C34_Classification ==
    Walked =>
        LET chain == raw.chain
            cur == chain[Len(chain)]
            next == fat[0][cur]
        IN  /\ chain[1] = raw.first
            /\ \A i \in 1 .. Len(chain) - 1 :
                   /\ chain[i + 1] = fat[0][chain[i]]
                   /\ Classified(chain[i], fat[0][chain[i]]) = "on"
            /\ \A i, j \in DOMAIN chain : chain[i] = chain[j] => i = j
            /\ Classified(cur, next) # "on"
            /\ Classified(cur, next) = "end" <=> raw.error = NoError
            /\ Classified(cur, next) = "self_loop" <=> raw.error = FATError(self_loop, cur, next)
            /\ Classified(cur, next) = "cluster_intersection"
                   <=> raw.error = FATError(cluster_intersection, cur, next)
            /\ Classified(cur, next) = "bad_cluster" <=> raw.error = FATError(bad_cluster, cur, next)

\* A walk of three clusters has stopped at a cluster of another file; one has
\* stopped at its own cluster; one at a reserved number.
C34_Witness ==
    Walked /\ Len(raw.chain) = 3 /\ raw.error.type = cluster_intersection
C34_SelfLoop == Walked /\ Len(raw.chain) = 2 /\ raw.error.type = self_loop
C34_Reserved ==
    Walked /\ raw.error.type = bad_cluster /\ raw.error.next_cluster_number = DCC

\* C36: the walk of a chain terminates for every FAT content and every first
\* cluster: it ends with an end-of-chain mark or with one of the three errors
\* after finitely many clusters, also when the FAT holds a cycle of two or more
\* clusters that are not in occupied_clusters.
C36_WalkTerminates == raw.first # None => raised = "none"

\* The part of C36 that the code keeps: a walk that does not come back to a
\* cluster of its own chain returns.
C36_AcyclicTerminates ==
    (raw.first # None /\ raised # "none") =>
        \E i, j \in DOMAIN raw.chain : i # j /\ raw.chain[i] = raw.chain[j]

(***************************************************************************)
(* The operations of the engine called with any argument, the root         *)
(* directory's cluster and numbers out of range included.                  *)
(***************************************************************************)
\* write_fat_entry_for_cluster with the tests of lines 90-91 and of
\* find_fat_entry_for_cluster lines 52-53 (FAT16 / FAT32).
write_fat_entry_checked(n, value, k, t, ph) ==
    IF value >= Power(2, bit_entry_length(t))
    THEN << Op("RAISE", None, None, None, NoLine, "AttributeError") >>
    ELSE IF n > DCC
    THEN << J(open_transaction(tx_write_table), ph), J(report(n, value, k), ph),
            Op("RAISE", None, None, None, NoLine, "RuntimeWarning") >>
    ELSE write_fat_entry_for_cluster(n, value, k, ph)

\* write_all_fat_entries_for_cluster, copy by copy until a write raises.
RECURSIVE write_copies_from(_, _, _, _, _, _)
write_copies_from(n, value, k, nfats, t, ph) ==
    IF k >= nfats THEN << J(close_transaction, ph) >>
    ELSE LET Then(ops) == IF Raises(ops) THEN ops
                          ELSE ops \o write_copies_from(n, value, k + 1, nfats, t, ph)
         IN  Then(write_fat_entry_checked(n, value, k, t, ph))

write_all_fat_entries_checked(n, value, nfats, t, ph) ==
    << J(open_transaction(tx_write_table), ph), J(report(n, value, None), ph) >>
    \o write_copies_from(n, value, 0, nfats, t, ph)

\* write_all_fat_entries_for_cluster(n, value) on an opened session.
WriteAllFatEntries(n, value) ==
    /\ CanCall
    /\ Called(Do(Session, write_all_fat_entries_checked(n, value, number_of_fats, fs_type,
                                                        "write_all")))
    /\ UNCHANGED toolvars
    /\ UNCHANGED raw

\* write_cluster(cluster, data) on an opened session.
WriteCluster(cluster, payload) ==
    /\ CanCall
    /\ Called(write_cluster_bytes(Session, cluster, payload))
    /\ UNCHANGED toolvars
    /\ UNCHANGED raw

\* The arguments of the calls: the clusters of the root, of D and of F, free
\* ones, the last entry of the table and the first number beyond it; values
\* that fit the entry and the first one that does not.
EngineSwapArgs(t) == RootOf(t) .. RootOf(t) + 4
EngineClusters(t) == {RootOf(t) + 2, DCC, DCC + 1}
EngineValues(t) == {0, end_of_file_markers(t), Power(2, bit_entry_length(t))}
EnginePayloads == {<< DataSlot("h1") >>, [i \in 1 .. SlotsPerCluster + 1 |-> DataSlot("h1")]}

NextEngine ==
    \/ JournalerInit
    \/ RecoverData
    \/ \E answer \in FatCopies(number_of_fats) : CompareAndFixTables(answer)
    \/ Traverse
    \/ CorrectErrors
    \/ DetermineFreeSpace
    \/ \E a, b \in EngineSwapArgs(fs_type) : SessionSwap(a, b)
    \/ \E n \in EngineClusters(fs_type), value \in EngineValues(fs_type) :
          WriteAllFatEntries(n, value)
    \/ \E cluster \in EngineClusters(fs_type) \ {DCC + 1}, payload \in EnginePayloads :
          WriteCluster(cluster, payload)
    \/ \E name \in NewNames, parent \in {"root", "D"}, contents \in NewContents :
          CreateFile(name, parent, contents)
    \/ \E name \in NewNames, parent \in {"root", "D"} : CreateDirectory(name, parent)

SpecEngine == InitDefrag /\ [][NextEngine]_vars

\* An operation called on the session has returned or raised.
Finished == phase = "ready" /\ calls >= 1

\* C35: whenever an operation of the engine finishes, by returning or by
\* raising an argument error, every TRANSACTION frame it opened has been
\* closed: the journal has no open frame.
C35_FramesBalanced == Finished => OpenFrames = <<>>

\* The part of C35 that the code keeps: an operation that returns leaves no
\* frame open.
C35_BalancedOnReturn == (Finished /\ raised = "none") => OpenFrames = <<>>

\* The session is open and its last step or call has returned.
AtRest == phase = "ready" /\ raised = "none"

\* The entry of key c in FAT copy 0 is what occupied_clusters holds for it.
MirrorsEntry(c) ==
    IF occupied_clusters[c].next_number = None THEN is_end_of_file(fs_type, fat[0][c])
    ELSE fat[0][c] = occupied_clusters[c].next_number

\* The clusters reached from cluster c through next_number, c included.
RECURSIVE FollowedFrom(_, _)
FollowedFrom(c, fuel) ==
    IF c = None \/ c \notin DOMAIN occupied_clusters \/ fuel = 0 THEN {}
    ELSE {c} \cup FollowedFrom(occupied_clusters[c].next_number, fuel - 1)

\* Every cluster that follows the first cluster of file id is owned by it.
OwnsItsChain(id) ==
    \A c \in FollowedFrom(files[id].first_cluster, DCC + 1) : occupied_clusters[c].file = id

\* C37: after open with repair and after any sequence of swap_clusters,
\* create_file and create_directory, for every key c >= 2 of occupied_clusters
\* the entry of c in FAT copy 0 equals occupied_clusters[c].next_number when
\* that is a cluster number and is an end-of-chain mark when it is none; no key
\* of occupied_clusters has FAT entry 0; every cluster following a file's
\* first_cluster through next_number is owned by that file.
C37_ChainMapMirrorsFat ==
    AtRest =>
        /\ \A c \in DOMAIN occupied_clusters : c >= 2 => MirrorsEntry(c) /\ fat[0][c] # 0
        /\ \A id \in DOMAIN files \ {"none"} : OwnsItsChain(id)

\* occupied_clusters holds for cluster c after the step what it held before.
EntryKept(c) ==
    /\ c \in DOMAIN occupied_clusters' <=> c \in DOMAIN occupied_clusters
    /\ c \in DOMAIN occupied_clusters => occupied_clusters'[c] = occupied_clusters[c]

\* Every file starts after the step where it started before.
FirstClustersKept ==
    /\ DOMAIN files' = DOMAIN files
    /\ \A id \in DOMAIN files : files'[id].first_cluster = files[id].first_cluster

\* C38: when swap_clusters(a, b) raises because a or b is a bad cluster, or
\* because a head patch is refused for the fixed root, occupied_clusters still
\* holds the same entries for a and b as before the call and the first cluster
\* of every file is unchanged.
C38_RejectedSwapLeavesSession ==
    [][\A a, b \in EngineSwapArgs(fs_type) :
           (SessionSwap(a, b) /\ raised' \in {"ValueError", "RuntimeWarning"}) =>
               EntryKept(a) /\ EntryKept(b) /\ FirstClustersKept]_vars

\* The part of C38 that the code keeps: a swap of a cluster with itself is
\* refused before the session is touched.
C38_SameClusterLeavesSession ==
    [][\A a \in EngineSwapArgs(fs_type) :
           SessionSwap(a, a) => (raised' = "ValueError" /\ EntryKept(a) /\ FirstClustersKept)]_vars

(***************************************************************************)
(* Directories with deleted records: the root of the image of \D\F with    *)
(* its two slots holding live records, deleted records (first byte 0xE5)   *)
(* and never used ones (first byte 0x00), in the orders in which deleted   *)
(* and live records can follow each other.                                 *)
(***************************************************************************)
RootLayouts == {<< "D", "NUL" >>, << "D", "G" >>, << "D", "E5" >>, << "E5", "D" >>}

\* The record that a slot of the root holds in a layout.
RecordOf(t, kind) ==
    IF kind = "D" THEN create_short_directory_entry("D", RootOf(t) + 1, TRUE)
    ELSE IF kind = "G" THEN create_short_directory_entry("G", DCC, FALSE)
    ELSE IF kind = "E5" THEN empty_directory_entry
    ELSE ZeroSlot

LayoutData(t, layout) ==
    [c \in PayloadClusters |->
        IF c = RootOf(t) THEN [i \in Slots |-> RecordOf(t, layout[i])]
        ELSE IF c = DCC /\ "G" \in Range(layout) THEN DataCluster("g1")
        ELSE InitData(t)[c]]

InitAppend ==
    /\ fs_type \in {fat16, fat32}
    /\ number_of_fats \in FatCounts
    /\ \E layout \in RootLayouts :
          /\ data = LayoutData(fs_type, layout)
          /\ fat = OpenFat(fs_type, number_of_fats, "G" \in Range(layout))
    /\ journal = << PathLine(ImagePath) >>
    /\ default_table = None
    /\ boot_root = IF fs_type = fat32 THEN RootOf(fs_type) ELSE None
    /\ remove_corrupted \in BOOLEAN
    /\ occupied_clusters = <<>>
    /\ files = <<>>
    /\ pending = <<>>
    /\ buf = << ZeroCluster, ZeroCluster >>
    /\ raised = "none"
    /\ swaps = <<>>
    /\ pre = NoImage
    /\ post = ImageOf(NoImage)
    /\ base = NoImage
    /\ phase = "closed"
    /\ unclosed_transactions = <<>>
    /\ corrupted_clusters = <<>>
    /\ found_directory = "None"
    /\ log = <<>>
    /\ fat0 = <<>>
    /\ opens = 0
    /\ repaired = <<>>
    /\ calls = 0
    /\ tool = NoTool
    /\ history = <<>>
    /\ raw = NoRaw

NextAppend ==
    \/ JournalerInit
    \/ RecoverData
    \/ \E answer \in FatCopies(number_of_fats) : CompareAndFixTables(answer)
    \/ Traverse
    \/ CorrectErrors
    \/ DetermineFreeSpace
    \/ \E name \in NewNames, parent \in {"root", "D"}, contents \in NewContents :
          CreateFile(name, parent, contents)
    \/ \E name \in NewNames, parent \in {"root", "D"} : CreateDirectory(name, parent)

SpecAppend == InitAppend /\ [][NextAppend]_vars

\* The step has written the record of a new object into slot i of cluster c.
RecordWritten(c, i) ==
    /\ data'[c][i].name \in NewNames
    /\ data'[c][i].name # data[c][i].name

\* C39: _add_entry_to_directory never overwrites a live directory record: the
\* slot it writes had first byte 0x00 or 0xE5 immediately before the write,
\* for every directory layout, directories with deleted slots before live
\* records included.
C39_AppendsToFreeSlot ==
    [][\A c \in DOMAIN data : \A i \in Slots :
           RecordWritten(c, i) => data[c][i].name \in {"NUL", "E5"}]_vars

\* The part of C39 that the code keeps: in a directory whose live records come
\* first and whose cluster has a slot left, the record goes to a slot that
\* was not live.
C39_NoDeletedBeforeLive ==
    [][\A c \in DOMAIN data : \A i \in Slots :
           (RecordWritten(c, i) /\ data[RootOf(fs_type)][1].name # "E5"
            /\ data[RootOf(fs_type)][2].name # "G")
               => data[c][i].name \in {"NUL", "E5"}]_vars

(***************************************************************************)
(* Replay of a journal cut after any complete line.                        *)
(***************************************************************************)
\* The journal file after a crash that follows the writing of its line n.
CrashPrefix(n) == SubSeq(journal, 1, n)

\* Journaler.__init__ on reopening finds the lines given: the replay ends
\* without an exception and leaves the frames without a matching CLOSED.
ReplayAccepts(lines) ==
    LET Accepted(r) ==
            /\ ~r.error
            /\ r.stack = IF lines = <<>> THEN <<>> ELSE UnclosedFrames(Tail(lines))
    IN  Accepted(recover_data(lines, ImagePath))

\* C40: every journal that is a prefix, cut after a complete line, of the log
\* the operations of the engine have written is replayed on reopening without
\* an exception (no CLOSED and no event line meets an empty stack of frames),
\* and the replay reports exactly the frames open at the cut.
C40_ReplayAcceptsCrashPrefix == \A n \in 0 .. Len(journal) : ReplayAccepts(CrashPrefix(n))

\* An operation has been called and its log, cut inside the operation, leaves
\* two nested frames open, which the replay reports.
C40_Witness ==
    /\ calls >= 1
    /\ \E n \in 1 .. Len(journal) - 1 :
          /\ Len(recover_data(CrashPrefix(n), ImagePath).stack) = 2
          /\ ReplayAccepts(CrashPrefix(n))

\* The log of an operation that raised is cut at its end: the frames the
\* operation left open are reported.
C40_WitnessRaised ==
    /\ calls >= 1 /\ raised # "none"
    /\ OpenFrames # <<>>
    /\ ReplayAccepts(journal)

====
